---- MODULE Spec2Model ----
(***************************************************************************)
(* A model of changelog.mjs: the branch selector's fuzzy filter, the       *)
(* changelog formatter, the version derivation, the diff capture, the AI   *)
(* response parser and the run of the generator.                           *)
(*                                                                         *)
(* A JavaScript string is a sequence of one-character strings, so that     *)
(* startsWith, includes, split and toLowerCase are computed, not assumed.  *)
(* Each subsystem has its own specification (SpecFilter, SpecFormat, ...); *)
(* the variables of the other subsystems stay at their idle values.        *)
(***************************************************************************)
EXTENDS Integers, Sequences, FiniteSets, TLC

VARIABLES
    \* BranchSelector (src/changelog.mjs:432-438)
    allBranches, searchQuery, filteredBranches,
    \* the existing CHANGELOG.md and CONFIG.output.shouldIncureaseVersion
    \* (lines 45, 895-896), and what getNextVersion returned
    changelog, shouldIncureaseVersion, nextVersion,
    \* formatMarkdown's argument and its result (lines 930-949)
    entries, output,
    \* getFileDiff: the lines of the diff and the lines kept (lines 372-373)
    diffLines, relevantLines,
    \* parseResponse: the text of the AI response and what came of it
    \* (lines 840-852)
    responseText, parsed,
    \* ChangelogGenerator.run: process.argv, process.env and CONFIG as the
    \* run reads them, the file at CONFIG.output.file when that is not
    \* CHANGELOG.md, the requests sent, the writeFileSync calls made, what
    \* was logged and called, the exit code of the process, and what
    \* generateChangelog returned
    args, env, config, previewFile, requests, fileWrites, events, exitCode,
    result,
    \* FileAnalyzer: the path classified, CONFIG.ignorePatterns and
    \* CONFIG.scopeMapping (lines 36, 39), the .gitignore of the working
    \* directory, and what shouldIgnore and getScope returned
    filePath, ignorePatterns, gitignore, scopeMapping, ignored, scope,
    \* a BranchSelector session (lines 432-438, 713-739): the cursor and the
    \* window, what getLocalBranches returns, process.stdin.isTTY, the
    \* branch the promise of select() resolved to, the rows and the scroll
    \* indicator display() wrote last, whether it wrote the line 'No branches
    \* match your search', the indexes at which the handling of the last key
    \* read filteredBranches, and the key handled last
    selectedIndex, scrollOffset, localBranches, isTTY, resolved, rendered, indicator,
    noMatches, lastRead, lastKey,
    \* what git reports to buildBranchList (lines 444-477): the names
    \* getRemoteBranches and getRecentBranches return and the branch checked
    \* out (getLocalBranches is localBranches)
    remoteBranches, recentBranches, currentBranch,
    \* the position of the operation under way
    pc

filterVars == <<allBranches, searchQuery, filteredBranches>>
versionVars == <<changelog, shouldIncureaseVersion, nextVersion>>
formatVars == <<entries, output>>
diffVars == <<diffLines, relevantLines>>
parseVars == <<responseText, parsed>>
runVars ==
    <<args, env, config, previewFile, requests, fileWrites, events, exitCode, result>>
classifyVars == <<filePath, ignorePatterns, gitignore, scopeMapping, ignored, scope>>
sessionVars ==
    <<selectedIndex, scrollOffset, localBranches, isTTY, resolved, rendered, indicator,
      noMatches, lastRead, lastKey>>
buildVars == <<remoteBranches, recentBranches, currentBranch>>

vars ==
    <<pc, filterVars, versionVars, formatVars, diffVars, parseVars, runVars,
      classifyVars, sessionVars, buildVars>>

\* A file is [exists, lines, leading, newline, cr]: its non-blank lines,
\* whether its text has white space before the first of them, whether a
\* line feed ends the last of them (blank characters may follow it), and
\* whether a carriage return stands before the line feed that ends the
\* line after the first, as in a text with CRLF line ends. existsSync is
\* false of NoFile.
NoFile ==
    [exists |-> FALSE, lines |-> <<>>, leading |-> FALSE, newline |-> TRUE,
     cr |-> FALSE]

\* The file whose text is the lines, each ended by a line feed.
File(lines) ==
    [exists |-> TRUE, lines |-> lines, leading |-> FALSE, newline |-> TRUE,
     cr |-> FALSE]

\* The same text without the line feed at its end.
Unterminated(lines) == [File(lines) EXCEPT !.newline = FALSE]

\* The same text with CRLF line ends.
CarriageReturns(lines) == [File(lines) EXCEPT !.cr = TRUE]

\* The same text after a blank line.
AfterBlankLine(lines) == [File(lines) EXCEPT !.leading = TRUE]

\* A value not computed yet.
None == <<>>

\* The .gitignore file is [exists, patterns]: its lines that are patterns
\* (lines 162-167).
NoGitignore == [exists |-> FALSE, patterns |-> <<>>]

ClassifyIdle ==
    /\ filePath = <<>>
    /\ ignorePatterns = <<>>
    /\ gitignore = NoGitignore
    /\ scopeMapping = <<>>
    /\ ignored = FALSE
    /\ scope = <<>>

\* A key is [name, str, ctrl, meta], as readline hands it to the listener
\* (str is "" where readline gives undefined); NoKey before any key.
NoKey == [name |-> "", str |-> "", ctrl |-> FALSE, meta |-> FALSE]

\* The selector as its constructor leaves it (lines 432-438).
SessionIdle ==
    /\ lastKey = NoKey
    /\ selectedIndex = 0
    /\ scrollOffset = 0
    /\ localBranches = {}
    /\ isTTY = TRUE
    /\ resolved = None
    /\ rendered = <<>>
    /\ indicator = FALSE
    /\ noMatches = FALSE
    /\ lastRead = {}

\* No branch list asked of git yet.
BuildIdle ==
    /\ remoteBranches = {}
    /\ recentBranches = <<>>
    /\ currentBranch = <<>>

FilterIdle ==
    /\ allBranches = <<>>
    /\ searchQuery = <<>>
    /\ filteredBranches = <<>>

VersionIdle ==
    /\ changelog = NoFile
    /\ shouldIncureaseVersion = FALSE
    /\ nextVersion = None

FormatIdle ==
    /\ entries = <<>>
    /\ output = <<>>

DiffIdle ==
    /\ diffLines = <<>>
    /\ relevantLines = <<>>

\* parseResponse threw (lines 845, 850).
ParseError == [ok |-> FALSE, depth |-> 0, leaf |-> "none"]

ParseIdle ==
    /\ responseText = <<>>
    /\ parsed = ParseError

\* The process has not exited.
Running == 0 - 1

\* CONFIG as the file sets it (lines 42-52).
DefaultConfig ==
    [ outputFile |-> "CHANGELOG.md", appendToExisting |-> TRUE,
      blockBreakingChanges |-> FALSE ]

\* A parsed response is [present, entries]: whether it has the property
\* 'entries', and the list that is its value.
NoResult == [present |-> FALSE, entries |-> <<>>]

RunIdle ==
    /\ args = [help |-> FALSE, dry |-> FALSE, range |-> "interactive", base |-> None]
    /\ env = [ANTHROPIC_API_KEY |-> FALSE, BREAKING_OK |-> FALSE]
    /\ config = DefaultConfig
    /\ previewFile = NoFile
    /\ requests = 0
    /\ fileWrites = 0
    /\ events = {}
    /\ exitCode = Running
    /\ result = NoResult

(***************************************************************************)
(* Strings                                                                 *)
(***************************************************************************)

\* c.toLowerCase() for one character; the letters the inputs use.
LowerChar(c) ==
    CASE c = "A" -> "a"
      [] c = "B" -> "b"
      [] c = "C" -> "c"
      [] OTHER -> c

\* String.prototype.toLowerCase
ToLowerCase(s) == [i \in 1..Len(s) |-> LowerChar(s[i])]

\* String.prototype.startsWith
StartsWith(s, p) == Len(p) <= Len(s) /\ SubSeq(s, 1, Len(p)) = p

\* String.prototype.endsWith
EndsWith(s, p) == Len(p) <= Len(s) /\ SubSeq(s, Len(s) - Len(p) + 1, Len(s)) = p

\* String.prototype.includes
Includes(s, p) ==
    \E i \in 0..(Len(s) - Len(p)) : SubSeq(s, i + 1, i + Len(p)) = p

\* String.prototype.split on a set of one-character separators: the parts
\* between separators, empty parts included, in order.
RECURSIVE SplitFrom(_, _, _, _)
SplitFrom(s, seps, i, cur) ==
    IF i > Len(s) THEN <<cur>>
    ELSE IF s[i] \in seps THEN <<cur>> \o SplitFrom(s, seps, i + 1, <<>>)
    ELSE SplitFrom(s, seps, i + 1, Append(cur, s[i]))

Split(s, seps) == SplitFrom(s, seps, 1, <<>>)

\* The string of n copies of the character c.
Repeat(c, n) == [i \in 1..n |-> c]

\* All strings over the alphabet A of length lo..hi.
StringsOver(A, lo, hi) == UNION {[1..n -> A] : n \in lo..hi}

\* The sequences of distinct elements of S, of length 0..n.
DistinctSeqs(S, n) ==
    {s \in UNION {[1..k -> S] : k \in 0..n} :
        \A i, j \in DOMAIN s : i # j => s[i] # s[j]}

\* q is a subsequence of s: its characters appear in s in order.
RECURSIVE IsSubsequence(_, _)
IsSubsequence(q, s) ==
    IF q = <<>> THEN TRUE
    ELSE IF s = <<>> THEN FALSE
    ELSE IF Head(q) = Head(s) THEN IsSubsequence(Tail(q), Tail(s))
    ELSE IsSubsequence(q, Tail(s))

(***************************************************************************)
(* BranchSelector.filterBranches (src/changelog.mjs:484-522)               *)
(***************************************************************************)

ScoreExact == 1000
ScoreStartsWith == 100
ScoreWordBoundary == 50
ScoreContains == 10

\* The fuzzy loop of lines 505-511: (queryIndex, score) after scanning
\* lowerBranch from position i while queryIndex < lowerQuery.length.
RECURSIVE FuzzyLoop(_, _, _, _, _)
FuzzyLoop(lowerBranch, lowerQuery, i, queryIndex, score) ==
    IF i > Len(lowerBranch) \/ queryIndex >= Len(lowerQuery)
    THEN <<queryIndex, score>>
    ELSE IF lowerBranch[i] = lowerQuery[queryIndex + 1]
         THEN FuzzyLoop(lowerBranch, lowerQuery, i + 1, queryIndex + 1, score + 1)
         ELSE FuzzyLoop(lowerBranch, lowerQuery, i + 1, queryIndex, score)

\* A fuzzy score that keeps the count of an incomplete match (line 512 left out).
FuzzyScoreKeepPartial(lowerBranch, lowerQuery) ==
    FuzzyLoop(lowerBranch, lowerQuery, 1, 0, 0)[2]

\* Lines 504-512: the count of matched characters, 0 when the query is not
\* matched completely.
FuzzyScore(lowerBranch, lowerQuery) ==
    LET r == FuzzyLoop(lowerBranch, lowerQuery, 1, 0, 0)
    IN  IF r[1] # Len(lowerQuery) THEN 0 ELSE r[2]

\* Lines 491-513: the score of one branch for a non-empty query.
BranchScore(branch, query) ==
    LET lowerBranch == ToLowerCase(branch)
        lowerQuery == ToLowerCase(query)
    IN  IF lowerBranch = lowerQuery THEN ScoreExact
        ELSE IF StartsWith(lowerBranch, lowerQuery) THEN ScoreStartsWith
        ELSE IF \E k \in DOMAIN Split(lowerBranch, {"/", "-"}) :
                    StartsWith(Split(lowerBranch, {"/", "-"})[k], lowerQuery)
             THEN ScoreWordBoundary
        ELSE IF Includes(lowerBranch, lowerQuery) THEN ScoreContains
        ELSE FuzzyScore(lowerBranch, lowerQuery)

\* An insertion that puts the item before the items of the same score: the
\* sort is no longer stable.
RECURSIVE InsertBeforeEqual(_, _)
InsertBeforeEqual(sorted, item) ==
    IF sorted = <<>> THEN <<item>>
    ELSE IF Head(sorted).score > item.score
         THEN <<Head(sorted)>> \o InsertBeforeEqual(Tail(sorted), item)
         ELSE <<item>> \o sorted

\* Array.prototype.sort((a, b) => b.score - a.score): a stable sort by
\* descending score, as insertion of each item after the items that do not
\* score less.
RECURSIVE InsertByScore(_, _)
InsertByScore(sorted, item) ==
    IF sorted = <<>> THEN <<item>>
    ELSE IF Head(sorted).score >= item.score
         THEN <<Head(sorted)>> \o InsertByScore(Tail(sorted), item)
         ELSE <<item>> \o sorted

RECURSIVE SortByScoreFrom(_, _, _)
SortByScoreFrom(items, i, sorted) ==
    IF i > Len(items) THEN sorted
    ELSE SortByScoreFrom(items, i + 1, InsertByScore(sorted, items[i]))

SortByScore(items) == SortByScoreFrom(items, 1, <<>>)

\* Lines 484-522 without the early return of line 485: the empty query
\* goes through the count of matched characters, which is 0.
EmptyQueryMatchesNothing(branches, query) ==
    LET scored == [i \in 1..Len(branches) |->
                      [branch |-> branches[i],
                       score |-> IF query = <<>> THEN 0
                                 ELSE BranchScore(branches[i], query)]]
        kept == SelectSeq(scored, LAMBDA item : item.score > 0)
        sorted == SortByScore(kept)
    IN  [i \in 1..Len(sorted) |-> sorted[i].branch]

\* Lines 484-522.
filterBranches(branches, query) ==
    IF query = <<>> THEN branches
    ELSE LET scored == [i \in 1..Len(branches) |->
                           [branch |-> branches[i],
                            score |-> BranchScore(branches[i], query)]]
             kept == SelectSeq(scored, LAMBDA item : item.score > 0)
             sorted == SortByScore(kept)
         IN  [i \in 1..Len(sorted) |-> sorted[i].branch]

(***************************************************************************)
(* SpecFilter: filterBranches applied to bounded inputs                    *)
(***************************************************************************)

MaxBranches == 2
MaxQueryLen == 2
MaxLongQuery == 11

QueryAlphabet == {"a", "b", "A"}

\* Branch names: one per match tier for the query "ab", in both cases, a
\* name that does not match, and two long names for long queries.
BranchPool ==
    { <<"a", "b">>, <<"A", "B">>, <<"a", "b", "c">>,
      <<"c", "/", "a", "b">>, <<"c", "-", "a", "b">>, <<"c", "a", "b">>,
      <<"a", "c", "b">>, <<"b", "a">>,
      <<"c">> \o Repeat("a", MaxLongQuery),
      Repeat("a", 5) \o <<"/">> \o Repeat("a", MaxLongQuery - 5) }

Queries ==
    StringsOver(QueryAlphabet, 0, MaxQueryLen)
        \cup {Repeat("a", n) : n \in 1..MaxLongQuery}

\* The selector after buildBranchList (line 475), with a query typed.
InitFilter ==
    /\ pc = "filter"
    /\ allBranches \in DistinctSeqs(BranchPool, MaxBranches)
    /\ searchQuery \in Queries
    /\ filteredBranches = allBranches
    /\ VersionIdle /\ FormatIdle /\ DiffIdle /\ ParseIdle /\ RunIdle
    /\ ClassifyIdle /\ SessionIdle /\ BuildIdle

\* display(), line 542: this.filteredBranches = this.filterBranches(this.searchQuery)
ApplyFilter ==
    /\ pc = "filter"
    /\ filteredBranches' = filterBranches(allBranches, searchQuery)
    /\ pc' = "filtered"
    /\ UNCHANGED <<allBranches, searchQuery, versionVars, formatVars, diffVars, parseVars, runVars,
                   classifyVars, sessionVars, buildVars>>

NextFilter == ApplyFilter

SpecFilter == InitFilter /\ [][NextFilter]_vars

\* The query occurs in the branch name as a contiguous run of characters,
\* case-insensitively: an exact, prefix or substring match.
ContiguousMatch(branch, query) ==
    Includes(ToLowerCase(branch), ToLowerCase(query))

\* The query occurs in the branch name in order, case-insensitively.
SubsequenceMatch(branch, query) ==
    IsSubsequence(ToLowerCase(query), ToLowerCase(branch))

\* C1: for a non-empty query, every branch filterBranches returns is one of
\* allBranches and contains the query's characters in order, ignoring case; a
\* branch that does not is never returned.
C1_OnlySubsequenceMatches ==
    (pc = "filtered" /\ searchQuery # <<>>) =>
        \A i \in DOMAIN filteredBranches :
            /\ \E k \in DOMAIN allBranches : allBranches[k] = filteredBranches[i]
            /\ SubsequenceMatch(filteredBranches[i], searchQuery)

\* C1 witness: a filter that kept a branch matching only as a scattered
\* subsequence and left out a branch sharing characters with the query.
C1_Witness ==
    /\ pc = "filtered"
    /\ searchQuery = <<"A", "b">>
    /\ allBranches = << <<"a", "c", "b">>, <<"b", "a">> >>
    /\ filteredBranches = << <<"a", "c", "b">> >>

\* C2: for a non-empty query of any length, every branch matching the query
\* contiguously (exactly, as a prefix or as a substring) comes before every
\* branch matching it only as a non-contiguous subsequence.
C2_ContiguousBeforeFuzzy ==
    (pc = "filtered" /\ searchQuery # <<>>) =>
        \A i, j \in DOMAIN filteredBranches :
            ( /\ ContiguousMatch(filteredBranches[i], searchQuery)
              /\ ~ContiguousMatch(filteredBranches[j], searchQuery) ) => i < j

(***************************************************************************)
(* ChangelogFormatter.getNextVersion (src/changelog.mjs:894-922)           *)
(*                                                                         *)
(* A number in a version is its string of decimal digits. A line of the    *)
(* changelog is [head, ver, close]: the text it starts with, the           *)
(* dot-separated digit strings that follow (<<>> when something else       *)
(* follows) and the text right after them.                                 *)
(***************************************************************************)

\* Number(s) for a string of decimal digits.
RECURSIVE Number(_)
Number(digits) ==
    IF digits = <<>> THEN 0
    ELSE 10 * Number(SubSeq(digits, 1, Len(digits) - 1)) + digits[Len(digits)]

\* String(n) for a natural number: its decimal digits, no leading zero.
RECURSIVE String(_)
String(n) ==
    IF n < 10 THEN <<n>> ELSE Append(String(n \div 10), n % 10)

\* The texts that start with "]", of those a line can hold after its
\* version: the bare bracket, and the bracket with the date formatHeader adds.
BracketFirst == {"]", "] - date"}

\* /^## \[(\d+\.\d+\.\d+)\]/m on one line (line 899).
versionRegex(line) ==
    /\ line.head = "## ["
    /\ Len(line.ver) = 3
    /\ \A k \in 1..3 : Len(line.ver[k]) >= 1
    /\ line.close \in BracketFirst

\* The literal '0.0.1' of line 921.
DefaultVersion == << <<0>>, <<0>>, <<1>> >>

\* Lines 909-918 with the last header found taken for the latest.
LatestIsLast(versions, increase) ==
    LET latestVersion == versions[Len(versions)]
    IN  IF ~increase THEN latestVersion
        ELSE << String(Number(latestVersion[1])),
                String(Number(latestVersion[2])),
                String(Number(latestVersion[3]) + 1) >>

\* Lines 909-918: the first header found is the latest version; returned as
\* it is, or rebuilt from its numbers with patch + 1.
BumpLatest(versions, increase) ==
    LET latestVersion == versions[1]
        major == Number(latestVersion[1])
        minor == Number(latestVersion[2])
        patch == Number(latestVersion[3])
    IN  IF ~increase THEN latestVersion
        ELSE <<String(major), String(minor), String(patch + 1)>>

\* Lines 894-922.
getNextVersion(file, increase) ==
    IF file.exists
    THEN LET matches == SelectSeq(file.lines, versionRegex)
             versions == [i \in 1..Len(matches) |-> matches[i].ver]
         IN  IF Len(versions) > 0 THEN BumpLatest(versions, increase)
             ELSE DefaultVersion
    ELSE DefaultVersion

(***************************************************************************)
(* SpecVersion: getNextVersion applied to bounded changelog files          *)
(***************************************************************************)

MaxChangelogLines == 2

VersionPool ==
    { <<major, <<2>>, patch>> :
        major \in { <<1>>, <<0, 1>> },
        patch \in { <<3>>, <<9>>, <<0, 9>>, <<9, 9>> } }

\* "## [X.Y.Z]" headers, and lines the expression must not match:
\* "## [Unreleased]", "### [1.2.3]", "## [1.2.3-beta]", "## [1.2]", text.
LinePool ==
    {[head |-> "## [", ver |-> v, close |-> "]"] : v \in VersionPool}
        \cup { [head |-> "## [", ver |-> << <<1>>, <<2>>, <<3>> >>, close |-> "] - date"],
               [head |-> "## [", ver |-> <<>>, close |-> "Unreleased]"],
               [head |-> "### [", ver |-> << <<1>>, <<2>>, <<3>> >>, close |-> "]"],
               [head |-> "## [", ver |-> << <<1>>, <<2>>, <<3>> >>, close |-> "-beta]"],
               [head |-> "## [", ver |-> << <<1>>, <<2>> >>, close |-> "]"],
               [head |-> "", ver |-> <<>>, close |-> "text"] }

Changelogs ==
    {NoFile} \cup
        {File(l) :
            l \in UNION {[1..n -> LinePool] : n \in 0..MaxChangelogLines}}

InitVersion ==
    /\ pc = "version"
    /\ changelog \in Changelogs
    /\ shouldIncureaseVersion \in BOOLEAN
    /\ nextVersion = None
    /\ FilterIdle /\ FormatIdle /\ DiffIdle /\ ParseIdle /\ RunIdle
    /\ ClassifyIdle /\ SessionIdle /\ BuildIdle

\* A call of formatter.getNextVersion() (lines 934, 1601).
CallGetNextVersion ==
    /\ pc = "version"
    /\ nextVersion' = getNextVersion(changelog, shouldIncureaseVersion)
    /\ pc' = "versioned"
    /\ UNCHANGED <<changelog, shouldIncureaseVersion, filterVars, formatVars, diffVars, parseVars, runVars,
                   classifyVars, sessionVars, buildVars>>

\* A second call against the unchanged changelog.
CallGetNextVersionAgain ==
    /\ pc = "versioned"
    /\ nextVersion' = getNextVersion(changelog, shouldIncureaseVersion)
    /\ pc' = "versioned twice"
    /\ UNCHANGED <<changelog, shouldIncureaseVersion, filterVars, formatVars, diffVars, parseVars, runVars,
                   classifyVars, sessionVars, buildVars>>

NextVersion == CallGetNextVersion \/ CallGetNextVersionAgain

SpecVersion == InitVersion /\ [][NextVersion]_vars

\* The positions of the changelog's lines that are "## [X.Y.Z]" headers.
HeaderLines ==
    {i \in DOMAIN changelog.lines :
        /\ changelog.lines[i].head = "## ["
        /\ changelog.lines[i].close \in {"]", "] - date"}
        /\ Len(changelog.lines[i].ver) = 3}

\* C5: getNextVersion returns 0.0.1 when there is no changelog or no
\* "## [X.Y.Z]" header in it; otherwise, of the first header of the file (the
\* latest version), with auto-increment the version whose major and minor
\* numbers are the same and whose patch number is one more, and without
\* auto-increment the version as written, also on a repeated call.
C5_NextVersion ==
    (pc \in {"versioned", "versioned twice"}) =>
        IF HeaderLines = {} THEN nextVersion = DefaultVersion
        ELSE LET first == CHOOSE i \in HeaderLines : \A j \in HeaderLines : i <= j
                 latest == changelog.lines[first].ver
             IN  IF shouldIncureaseVersion
                 THEN /\ Number(nextVersion[1]) = Number(latest[1])
                      /\ Number(nextVersion[2]) = Number(latest[2])
                      /\ Number(nextVersion[3]) = Number(latest[3]) + 1
                      /\ \A k \in 1..3 : nextVersion[k] = String(Number(nextVersion[k]))
                 ELSE nextVersion = latest

\* C5 witness: a changelog with two version headers, the first 1.2.9, read
\* twice with auto-increment: the next version is 1.2.10.
C5_Witness ==
    /\ pc = "versioned twice"
    /\ shouldIncureaseVersion
    /\ changelog.exists /\ Len(changelog.lines) = 2
    /\ changelog.lines[1] = [head |-> "## [", ver |-> << <<1>>, <<2>>, <<9>> >>, close |-> "]"]
    /\ changelog.lines[2] = [head |-> "## [", ver |-> << <<1>>, <<2>>, <<3>> >>, close |-> "]"]
    /\ nextVersion = << <<1>>, <<2>>, <<1, 0>> >>

(***************************************************************************)
(* ChangelogFormatter (src/changelog.mjs:859-1112, 1191-1193)              *)
(*                                                                         *)
(* An entry is [type, category, scope, description]; "" is an absent (or   *)
(* empty, equally falsy) category; a scope is a string, "" included, or    *)
(* undefined when the entry has none; and the description is the           *)
(* entry's position in the list, which tells the entries apart. Category   *)
(* names are written without their emoji. The markdown is the sequence of  *)
(* its non-blank lines: [kind |-> "h2" | "h3" | "h4" | "breaking" |        *)
(* "item", ...]. PR and ticket metadata and detail lines are left out.     *)
(***************************************************************************)

\* Lines 859-870.
CATEGORIES ==
    << "New Features", "Features", "Enhancements", "Improvements",
       "Bug Fixes", "Performance", "Refactoring", "Documentation",
       "Testing", "Configuration" >>

BreakingHeading == "BREAKING CHANGES"

\* Lines 879-887; "" where the table has no such type.
typeToCategory(type) ==
    CASE type = "feat" -> "New Features"
      [] type = "fix" -> "Bug Fixes"
      [] type = "improve" -> "Improvements"
      [] type = "refactor" -> "Refactoring"
      [] type = "docs" -> "Documentation"
      [] type = "test" -> "Testing"
      [] type = "breaking" -> BreakingHeading
      [] OTHER -> ""

\* Lines 1191-1193: category.includes('BREAKING'), for the category names
\* the model uses.
isBreakingCategory(category) ==
    category \in {BreakingHeading, "BREAKING API"}

\* The value of a property name that is an array index ("7"), -1 for any
\* other name: an object lists its array-index names first, ascending.
ArrayIndex(name) ==
    CASE name = "7" -> 7
      [] name = "12" -> 12
      [] OTHER -> 0 - 1

\* acc[key].push(entry), creating the group when the key is new. A group is
\* [key, entries]; groups are kept in the order Object.entries lists them:
\* array-index names ascending, then the other names in insertion order.
RECURSIVE InsertGroup(_, _)
InsertGroup(groups, g) ==
    IF groups = <<>> THEN <<g>>
    ELSE IF /\ ArrayIndex(g.key) >= 0
            /\ \/ ArrayIndex(Head(groups).key) < 0
               \/ ArrayIndex(Head(groups).key) > ArrayIndex(g.key)
         THEN <<g>> \o groups
         ELSE <<Head(groups)>> \o InsertGroup(Tail(groups), g)

PushToGroup(groups, key, entry) ==
    IF \E k \in DOMAIN groups : groups[k].key = key
    THEN [k \in DOMAIN groups |->
            IF groups[k].key = key
            THEN [groups[k] EXCEPT !.entries = Append(@, entry)]
            ELSE groups[k]]
    ELSE InsertGroup(groups, [key |-> key, entries |-> <<entry>>])

\* Line 958.
CategoryOf(entry) ==
    IF entry.category # "" THEN entry.category
    ELSE IF typeToCategory(entry.type) # "" THEN typeToCategory(entry.type)
    ELSE "Other Changes"

\* Lines 956-963.
RECURSIVE GroupFrom(_, _, _)
GroupFrom(list, i, acc) ==
    IF i > Len(list) THEN acc
    ELSE GroupFrom(list, i + 1, PushToGroup(acc, CategoryOf(list[i]), list[i]))

groupByCategory(list) == GroupFrom(list, 1, <<>>)

\* grouped[category], <<>> when there is no such property.
GroupEntries(grouped, category) ==
    IF \E k \in DOMAIN grouped : grouped[k].key = category
    THEN grouped[CHOOSE k \in DOMAIN grouped : grouped[k].key = category].entries
    ELSE <<>>

\* The concatenation of a sequence of sequences.
RECURSIVE Flatten(_)
Flatten(ss) == IF ss = <<>> THEN <<>> ELSE Head(ss) \o Flatten(Tail(ss))

\* Lines 971-973.
formatHeader(version) == << [kind |-> "h2", version |-> version] >>

\* The value read from a property the object does not have.
undefined == "(undefined)"

\* A value is truthy: neither absent nor the empty string.
Truthy(value) == value # "" /\ value # undefined

\* `${value}` in a template literal.
TemplateText(value) == IF value = undefined THEN "undefined" ELSE value

\* Lines 998-1012.
formatBreakingEntry(entry) ==
    << [kind |-> "h4", text |-> TemplateText(entry.scope)],
       [kind |-> "breaking", description |-> entry.description] >>

\* Lines 980-991.
formatBreakingChanges(list) ==
    LET breakingChanges == SelectSeq(list, LAMBDA e : e.type = "breaking")
    IN  IF Len(breakingChanges) = 0 THEN <<>>
        ELSE << [kind |-> "h3", text |-> BreakingHeading] >> \o
             Flatten([k \in DOMAIN breakingChanges |->
                         formatBreakingEntry(breakingChanges[k])])

\* Lines 1094-1112.
formatEntry(entry, includeScope) ==
    << [kind |-> "item", description |-> entry.description,
        scope |-> IF includeScope /\ Truthy(entry.scope) THEN entry.scope ELSE ""] >>

\* Lines 1065-1070.
RECURSIVE ScopeGroupFrom(_, _, _)
ScopeGroupFrom(list, i, acc) ==
    IF i > Len(list) THEN acc
    ELSE ScopeGroupFrom(list, i + 1,
            PushToGroup(acc, IF Truthy(list[i].scope) THEN list[i].scope ELSE "General",
                        list[i]))

\* Lines 1064-1086.
formatByScopeGroups(list) ==
    LET byScope == ScopeGroupFrom(list, 1, <<>>)
    IN  Flatten([k \in DOMAIN byScope |->
            (IF byScope[k].key # "General"
             THEN << [kind |-> "h4", text |-> byScope[k].key] >> ELSE <<>>) \o
            Flatten([n \in DOMAIN byScope[k].entries |->
                        formatEntry(byScope[k].entries[n], byScope[k].key = "General")])])

ScopeGroupThreshold == 5

\* Lines 1044-1057.
formatCategory(category, list) ==
    << [kind |-> "h3", text |-> category] >> \o
    (IF Len(list) > ScopeGroupThreshold THEN formatByScopeGroups(list)
     ELSE Flatten([k \in DOMAIN list |-> formatEntry(list[k], TRUE)]))

\* Lines 1019-1036.
formatCategories(grouped) ==
    Flatten([c \in DOMAIN CATEGORIES |->
                IF GroupEntries(grouped, CATEGORIES[c]) # <<>>
                   /\ ~isBreakingCategory(CATEGORIES[c])
                THEN formatCategory(CATEGORIES[c], GroupEntries(grouped, CATEGORIES[c]))
                ELSE <<>>]) \o
    Flatten([k \in DOMAIN grouped |->
                IF (\A c \in DOMAIN CATEGORIES : CATEGORIES[c] # grouped[k].key)
                   /\ ~isBreakingCategory(grouped[k].key)
                THEN formatCategory(grouped[k].key, grouped[k].entries)
                ELSE <<>>])

\* Lines 930-949 with the breaking section added after the categories.
CategoriesThenBreaking(list, version) ==
    IF Len(list) = 0 THEN <<>>
    ELSE formatHeader(version) \o formatCategories(groupByCategory(list))
            \o formatBreakingChanges(list)

\* Lines 930-949.
formatMarkdown(list, version) ==
    IF Len(list) = 0 THEN <<>>
    ELSE LET grouped == groupByCategory(list)
         IN  formatHeader(version) \o formatBreakingChanges(list)
                \o formatCategories(grouped)

(***************************************************************************)
(* SpecFormat: formatMarkdown applied to bounded entry lists               *)
(***************************************************************************)

MaxEntries == 2

\* Types: three of the table, and one it does not know.
EntryTypes == {"feat", "fix", "breaking", "chore"}

\* Categories: absent, a known one, an unknown one, the breaking heading,
\* and a name that is an array index.
EntryCategories == {"", "Features", "Security", BreakingHeading, "7"}

ShortEntries ==
    {[type |-> t, category |-> c, scope |-> given, description |-> 0] :
        t \in EntryTypes, c \in EntryCategories, given \in {"ui", undefined}}

\* Lists long enough for the grouping by scope: entries of one type and
\* category, each with its own scope.
BulkLists ==
    { [i \in 1..(ScopeGroupThreshold + 1) |->
          [type |-> tc[1], category |-> tc[2], scope |-> sc[i], description |-> 0]] :
        tc \in { <<"feat", "">>, <<"breaking", "Features">>, <<"chore", "">> },
        sc \in [1..(ScopeGroupThreshold + 1) -> {undefined, "", "ui", "General"}] }

\* The list with each entry's description set to its position.
Described(list) == [i \in DOMAIN list |-> [list[i] EXCEPT !.description = i]]

EntryLists ==
    {Described(l) :
        l \in UNION {[1..n -> ShortEntries] : n \in 0..MaxEntries} \cup BulkLists}

InitFormat ==
    /\ pc = "format"
    /\ entries \in EntryLists
    /\ output = <<>>
    /\ FilterIdle /\ VersionIdle /\ DiffIdle /\ ParseIdle /\ RunIdle
    /\ ClassifyIdle /\ SessionIdle /\ BuildIdle

\* formatter.formatMarkdown(result.entries, baseBranch), line 1640.
CallFormatMarkdown ==
    /\ pc = "format"
    /\ output' = formatMarkdown(entries, getNextVersion(changelog, shouldIncureaseVersion))
    /\ pc' = "formatted"
    /\ UNCHANGED <<entries, filterVars, versionVars, diffVars, parseVars, runVars,
                   classifyVars, sessionVars, buildVars>>

NextFormat == CallFormatMarkdown

SpecFormat == InitFormat /\ [][NextFormat]_vars

\* The entries of type 'breaking', by position.
BreakingEntries == {i \in DOMAIN entries : entries[i].type = "breaking"}

\* The positions in the output of the headings of the other sections.
CategoryHeadings ==
    {q \in DOMAIN output : output[q].kind = "h3" /\ output[q].text # BreakingHeading}

\* C3: when the list has a breaking-type entry, the output has the
\* breaking-changes heading, and that heading and every breaking-type entry
\* under it come before the heading of every other section, whatever the
\* category of the breaking entries.
C3_BreakingFirst ==
    (pc = "formatted" /\ BreakingEntries # {}) =>
        \E h \in DOMAIN output :
            /\ output[h] = [kind |-> "h3", text |-> BreakingHeading]
            /\ \A q \in CategoryHeadings : h < q
            /\ \A i \in BreakingEntries :
                  \E p \in DOMAIN output :
                      /\ output[p] = [kind |-> "breaking", description |-> i]
                      /\ h < p
                      /\ \A q \in CategoryHeadings : p < q

\* C3 witness: a feature listed first and a breaking entry of category
\* Features listed second, formatted: the Features section is there, after
\* the breaking section.
C3_Witness ==
    /\ pc = "formatted"
    /\ Len(entries) = 2
    /\ entries[1].type = "feat" /\ entries[1].category = "Features"
    /\ entries[2].type = "breaking" /\ entries[2].category = "Features"
    /\ output[2] = [kind |-> "h3", text |-> BreakingHeading]
    /\ \E q \in CategoryHeadings : output[q].text = "Features"

\* C4: every entry of the list, whatever its type and category, is in the
\* output, as a line of the breaking section or of a category section.
C4_NoEntryDropped ==
    (pc = "formatted") =>
        \A i \in DOMAIN entries :
            \E p \in DOMAIN output :
                /\ output[p].kind \in {"breaking", "item"}
                /\ output[p].description = i

(***************************************************************************)
(* GitOperations.getFileDiff (src/changelog.mjs:370-394)                   *)
(*                                                                         *)
(* The diff is the sequence of its lines (diff.split of line 372); the     *)
(* result is relevantLines, which line 393 joins with newlines.            *)
(***************************************************************************)

maxHunks == 3

\* Line 380 with > for >=.
HunkLimitOffByOne(hunkCount) == hunkCount > maxHunks

\* Line 380: the break.
HunkLimitReached(hunkCount) == hunkCount >= maxHunks

\* Lines 378-391: the loop from line i on.
RECURSIVE DiffLoop(_, _, _, _, _)
DiffLoop(lines, i, inHunk, hunkCount, relevant) ==
    IF i > Len(lines) THEN relevant
    ELSE LET line == lines[i]
         IN  IF StartsWith(line, <<"@", "@">>)
             THEN IF HunkLimitReached(hunkCount) THEN relevant
                  ELSE DiffLoop(lines, i + 1, TRUE, hunkCount + 1, Append(relevant, line))
             ELSE IF inHunk /\ (StartsWith(line, <<"+">>) \/ StartsWith(line, <<"-">>))
             THEN DiffLoop(lines, i + 1, inHunk, hunkCount, Append(relevant, line))
             ELSE IF inHunk /\ line = <<>>
             THEN DiffLoop(lines, i + 1, inHunk, hunkCount, Append(relevant, line))
             ELSE IF ~StartsWith(line, <<" ">>)
             THEN DiffLoop(lines, i + 1, FALSE, hunkCount, relevant)
             ELSE DiffLoop(lines, i + 1, inHunk, hunkCount, relevant)

\* Lines 372-393.
getFileDiff(lines) == DiffLoop(lines, 1, FALSE, 0, <<>>)

(***************************************************************************)
(* SpecDiff: getFileDiff applied to bounded diffs                          *)
(***************************************************************************)

MaxDiffLines == 5

\* A hunk header, an added, a removed, an empty and a context line, a line
\* of another kind ("diff --git", "index") and a line with a single "@".
DiffLinePool ==
    { <<"@", "@">>, <<"+", "x">>, <<"-", "x">>, <<>>, <<" ", "x">>,
      <<"d">>, <<"@">> }

\* executeCommand trims its output (line 98): the text neither starts nor
\* ends with white space, so the first and the last line do not either,
\* and neither is empty unless the whole output is.
IsTrimmed(lines) ==
    \/ lines = << <<>> >>
    \/ /\ lines[1] # <<>> /\ lines[1][1] # " "
       /\ lines[Len(lines)] # <<>>
       /\ lines[Len(lines)][Len(lines[Len(lines)])] # " "

Diffs ==
    {l \in UNION {[1..n -> DiffLinePool] : n \in 1..MaxDiffLines} : IsTrimmed(l)}

InitDiff ==
    /\ pc = "diff"
    /\ diffLines \in Diffs
    /\ relevantLines = <<>>
    /\ FilterIdle /\ VersionIdle /\ FormatIdle /\ ParseIdle /\ RunIdle
    /\ ClassifyIdle /\ SessionIdle /\ BuildIdle

\* GitOperations.getFileDiff(range, file), line 1291.
CallGetFileDiff ==
    /\ pc = "diff"
    /\ relevantLines' = getFileDiff(diffLines)
    /\ pc' = "diffed"
    /\ UNCHANGED <<diffLines, filterVars, versionVars, formatVars, parseVars, runVars,
                   classifyVars, sessionVars, buildVars>>

NextDiff == CallGetFileDiff

SpecDiff == InitDiff /\ [][NextDiff]_vars

\* The number of hunk headers among the lines.
HunkHeaders(lines) ==
    Cardinality({i \in DOMAIN lines : StartsWith(lines[i], <<"@", "@">>)})

\* C6: the output of getFileDiff has at most 3 hunk headers and no context
\* line; each of its lines is a hunk header, an added or a removed line or
\* an empty line; its lines are lines of the diff, in their order.
C6_DiffCapture ==
    (pc = "diffed") =>
        /\ HunkHeaders(relevantLines) <= 3
        /\ \A i \in DOMAIN relevantLines :
              /\ ~StartsWith(relevantLines[i], <<" ">>)
              /\ \/ StartsWith(relevantLines[i], <<"@", "@">>)
                 \/ StartsWith(relevantLines[i], <<"+">>)
                 \/ StartsWith(relevantLines[i], <<"-">>)
                 \/ relevantLines[i] = <<>>
        /\ IsSubsequence(relevantLines, diffLines)

\* C6 witness: a diff of four hunks, captured: three headers are kept.
C6_Witness ==
    /\ pc = "diffed"
    /\ HunkHeaders(diffLines) = 4
    /\ \E i \in DOMAIN diffLines : diffLines[i] = <<"+", "x">>
    /\ HunkHeaders(relevantLines) = 3
    /\ Len(relevantLines) = 4

(***************************************************************************)
(* AIChangelogGenerator.parseResponse (src/changelog.mjs:840-852)          *)
(*                                                                         *)
(* The text is a string over "{", "}", "k" and "x": "k" stands for a       *)
(* member's name with its colon (and, before "}", its scalar value), "x"   *)
(* for a character of prose. The JSON objects of this alphabet are "{}",   *)
(* "{k}" and "{k" object "}"; a parsed object is [ok, depth, leaf]: how    *)
(* deep its members nest and what the innermost object holds.              *)
(***************************************************************************)

\* JSON.parse of the text from position i on, as an object that ends at the
\* end of the text (line 848); ParseError when it throws.
RECURSIVE ParseObject(_, _, _)
ParseObject(s, i, depth) ==
    IF i + 1 > Len(s) \/ s[i] # "{" THEN ParseError
    ELSE IF s[i + 1] = "}"
         THEN IF i + 1 + depth = Len(s)
                 /\ \A j \in (i + 2)..Len(s) : s[j] = "}"
              THEN [ok |-> TRUE, depth |-> depth, leaf |-> "empty"]
              ELSE ParseError
    ELSE IF s[i + 1] = "k"
         THEN IF i + 2 <= Len(s) /\ s[i + 2] = "}"
              THEN IF i + 2 + depth = Len(s)
                      /\ \A j \in (i + 3)..Len(s) : s[j] = "}"
                   THEN [ok |-> TRUE, depth |-> depth + 1, leaf |-> "scalar"]
                   ELSE ParseError
              ELSE ParseObject(s, i + 2, depth + 1)
    ELSE ParseError

JSONparse(s) == ParseObject(s, 1, 0)

\* The positions of a character in the text.
Positions(s, c) == {i \in DOMAIN s : s[i] = c}

Min(S) == CHOOSE x \in S : \A y \in S : x <= y
Max(S) == CHOOSE x \in S : \A y \in S : x >= y

\* text.match(/\{[\s\S]*\}/) of line 843: from the first "{" to the last
\* "}" after it; <<>> when there is no match.
jsonMatch(text) ==
    IF Positions(text, "{") = {} THEN <<>>
    ELSE LET first == Min(Positions(text, "{"))
             closers == {i \in Positions(text, "}") : i > first}
         IN  IF closers = {} THEN <<>>
             ELSE SubSeq(text, first, Max(closers))

\* Lines 840-852.
parseResponse(text) ==
    IF jsonMatch(text) = <<>> THEN ParseError
    ELSE JSONparse(jsonMatch(text))

(***************************************************************************)
(* SpecParse: parseResponse applied to bounded texts                       *)
(***************************************************************************)

MaxTextLen == 5

Texts == StringsOver({"{", "}", "k", "x"}, 0, MaxTextLen)

InitParse ==
    /\ pc = "parse"
    /\ responseText \in Texts
    /\ parsed = ParseError
    /\ FilterIdle /\ VersionIdle /\ FormatIdle /\ DiffIdle /\ RunIdle
    /\ ClassifyIdle /\ SessionIdle /\ BuildIdle

\* this.parseResponse(text), line 832.
CallParseResponse ==
    /\ pc = "parse"
    /\ parsed' = parseResponse(responseText)
    /\ pc' = "parsed"
    /\ UNCHANGED <<responseText, filterVars, versionVars, formatVars, diffVars, runVars,
                   classifyVars, sessionVars, buildVars>>

NextParse == CallParseResponse

SpecParse == InitParse /\ [][NextParse]_vars

\* The nesting depth after the characters from position a to position i.
RECURSIVE BraceDepth(_, _, _)
BraceDepth(s, a, i) ==
    IF i < a THEN 0
    ELSE BraceDepth(s, a, i - 1) +
            (IF s[i] = "{" THEN 1 ELSE IF s[i] = "}" THEN 0 - 1 ELSE 0)

\* The first balanced {...} span of the text: from the first "{" to the
\* brace that closes it; <<>> when it is never closed.
FirstBalancedSpan(text) ==
    IF Positions(text, "{") = {} THEN <<>>
    ELSE LET first == Min(Positions(text, "{"))
             ends == {i \in first..Len(text) : BraceDepth(text, first, i) = 0}
         IN  IF ends = {} THEN <<>> ELSE SubSeq(text, first, Min(ends))

\* C7: when the text has a first balanced {...} span and that span is a
\* well-formed JSON object, whatever prose precedes and follows it,
\* parseResponse returns that object; it fails only otherwise.
C7_FirstBalancedSpanParsed ==
    (pc = "parsed") =>
        LET span == FirstBalancedSpan(responseText)
        IN  (span # <<>> /\ JSONparse(span).ok) =>
                (parsed.ok /\ parsed = JSONparse(span))

(***************************************************************************)
(* OutputHandler (src/changelog.mjs:1334-1416)                             *)
(*                                                                         *)
(* A file holds its non-blank lines, each [head, ver, close] as above,     *)
(* and what the expressions of appendToChangelog depend on besides: white  *)
(* space before the first line and the line break at the end of the text.  *)
(***************************************************************************)

TitleLine == [head |-> "# Changelog", ver |-> <<>>, close |-> ""]
DescriptionLine == [head |-> "", ver |-> <<>>, close |-> "text"]
PreviewTitleLine == [head |-> "# Changelog Preview", ver |-> <<>>, close |-> ""]
FooterLines ==
    << [head |-> "---", ver |-> <<>>, close |-> ""],
       [head |-> "**Full Changelog**", ver |-> <<>>, close |-> "compare"],
       [head |-> "*Generated on", ver |-> <<>>, close |-> "date"] >>

\* The line of the file a line of the markdown becomes.
ToLine(token) ==
    CASE token.kind = "h2" ->
            [head |-> "## [", ver |-> token.version, close |-> "] - date"]
      [] token.kind = "h3" -> [head |-> "### ", ver |-> <<>>, close |-> token.text]
      [] token.kind = "h4" -> [head |-> "#### ", ver |-> <<>>, close |-> token.text]
      [] token.kind = "breaking" -> [head |-> "**", ver |-> <<>>, close |-> "entry"]
      [] OTHER -> [head |-> "- ", ver |-> <<>>, close |-> "entry"]

ToLines(markdown) == [i \in DOMAIN markdown |-> ToLine(markdown[i])]

\* The line starts with "#".
IsHeading(line) ==
    line.head \in {"# Changelog", "# Changelog Preview", "## [", "### [", "### ", "#### "}

\* Lines 1353-1358: the text read, or the standard header.
existingText(file) == IF file.exists THEN file ELSE File(<<TitleLine, DescriptionLine>>)

\* Lines 1362-1363: /^# Changelog\s*\n+/ matches where the text starts
\* with the title and a line feed follows it, after white space or not.
headerMatch(existing) ==
    /\ ~existing.leading
    /\ existing.lines # <<>>
    /\ existing.lines[1] = TitleLine
    /\ (Len(existing.lines) > 1 \/ existing.newline)

\* Lines 1369-1370: /^(?!#).*\n+/ matches where the line after the title
\* does not start with '#' and a line feed follows it at once: '.' takes
\* no carriage return.
descriptionMatch(existing) ==
    /\ Len(existing.lines) >= 2
    /\ ~IsHeading(existing.lines[2])
    /\ ~existing.cr
    /\ (Len(existing.lines) > 2 \/ existing.newline)

\* Lines 1350-1390: the file written. The text ends as the text read did,
\* or with the line feed added after the content where nothing follows;
\* the line after the first is one of the content or the description kept,
\* ended by a line feed alone.
appendToChangelog(file, content) ==
    LET existing == existingText(file)
        kept == IF ~headerMatch(existing) THEN 0
                ELSE IF descriptionMatch(existing) THEN 2
                ELSE 1
        after == SubSeq(existing.lines, kept + 1, Len(existing.lines))
    IN  [exists |-> TRUE,
         lines |-> (IF kept = 0 THEN <<TitleLine>> ELSE SubSeq(existing.lines, 1, kept))
                        \o content \o after,
         leading |-> FALSE,
         newline |-> IF after = <<>> THEN TRUE ELSE existing.newline,
         cr |-> FALSE]

\* Lines 1397-1416: the lines written to the file.
writeNewFile(content) == <<PreviewTitleLine>> \o content \o FooterLines

\* Line 1337.
AppendsToChangelog(cfg) ==
    cfg.appendToExisting /\ cfg.outputFile = "CHANGELOG.md"

(***************************************************************************)
(* ChangelogGenerator.run (src/changelog.mjs:1529-1662)                    *)
(***************************************************************************)

\* The file at CONFIG.output.file.
OutputFile == IF config.outputFile = "CHANGELOG.md" THEN changelog ELSE previewFile

\* Lines 1606-1608 with a pattern that matches nothing.
NeverDuplicate(file, version) == FALSE

\* Lines 1606-1608: versionPattern.test(existingContent).
versionPattern(file, version) ==
    \E i \in DOMAIN file.lines :
        /\ file.lines[i].head = "## ["
        /\ file.lines[i].ver = version
        /\ file.lines[i].close \in BracketFirst

\* Lines 1529-1551 without the test of process.env.BREAKING_OK.
BlockDespiteOverride(list, cfg, environment) ==
    /\ \E i \in DOMAIN list : list[i].type = "breaking"
    /\ cfg.blockBreakingChanges

\* Lines 1529-1551.
checkBreakingChanges(list, cfg, environment) ==
    LET breakingChanges == SelectSeq(list, LAMBDA e : e.type = "breaking")
    IN  IF Len(breakingChanges) = 0 THEN FALSE
        ELSE cfg.blockBreakingChanges /\ ~environment.BREAKING_OK

\* process.exit(code), or the return of run with nothing left to do.
Exit(code, what) ==
    /\ pc' = "exited"
    /\ exitCode' = code
    /\ events' = events \cup what

\* A catch block that starts the request over.
CatchAndRetry(message) ==
    /\ pc' = "callAI"
    /\ exitCode' = exitCode
    /\ events' = events \cup {message}

\* Lines 1655-1661: the catch block of run.
Catch(message) == Exit(1, {message, "logError"})

\* Line 1627 taking every result to have entries.
AnyResult(r) == TRUE

\* Line 1627: result.entries?.length.
HasEntries(r) == r.present /\ Len(r.entries) > 0

\* Line 1649 not reading the flag.
IgnoreDryFlag(arguments) == TRUE

\* Lines 1649-1653: the branch that writes.
WritesOutput(arguments) == ~arguments.dry

\* Lines 1558-1562.
RunHelp ==
    /\ pc = "run" /\ args.help
    /\ Exit(0, {"showHelp"})
    /\ UNCHANGED <<args, env, config, previewFile, requests, fileWrites, result,
                   filterVars, versionVars, formatVars, diffVars, parseVars,
                   classifyVars, sessionVars, buildVars>>

\* The patterns of lines 174-178.
DefaultPatterns ==
    << <<"n", "o", "d", "e", "_", "m", "o", "d", "u", "l", "e", "s", "/">>,
      <<"d", "i", "s", "t", "/">>,
      <<"b", "u", "i", "l", "d", "/">>,
      <<".", "n", "e", "x", "t", "/">>,
      <<".", "n", "u", "x", "t", "/">>,
      <<"*", ".", "l", "o", "g">>,
      <<"*", ".", "m", "a", "p">>,
      <<"*", ".", "m", "i", "n", ".", "j", "s">>,
      <<"*", ".", "m", "i", "n", ".", "c", "s", "s">>,
      <<".", "e", "n", "v", "*">>,
      <<"*", ".", "p", "e", "m">>,
      <<"*", ".", "k", "e", "y">> >>

\* loadGitignorePatterns, lines 160-179.
loadGitignorePatterns(gi) == IF gi.exists THEN gi.patterns ELSE DefaultPatterns

\* String.prototype.replace(/from/g, to): every occurrence of from, left to
\* right, replaced by to; what was put in is not looked at again. "from"
\* is not empty.
RECURSIVE ReplaceAllFrom(_, _, _, _)
ReplaceAllFrom(s, from, to, i) ==
    IF i > Len(s) THEN <<>>
    ELSE IF i + Len(from) - 1 <= Len(s) /\ SubSeq(s, i, i + Len(from) - 1) = from
    THEN to \o ReplaceAllFrom(s, from, to, i + Len(from))
    ELSE <<s[i]>> \o ReplaceAllFrom(s, from, to, i + 1)

ReplaceAll(s, from, to) == ReplaceAllFrom(s, from, to, 1)

\* What new RegExp(source) throws a SyntaxError for, with sources made of
\* "(", ")", "*", "+", "?" and characters that stand for themselves or for
\* a class: a quantifier with nothing to repeat (at the start, after "(",
\* after another quantifier; "?" after a quantifier makes it lazy and is
\* taken), a ")" without its "(", a "(" never closed. depth counts the
\* groups open, prev is what was read last: "none", "atom", "quantifier"
\* or "lazy".
RECURSIVE SyntaxErrorFrom(_, _, _, _)
SyntaxErrorFrom(source, i, depth, prev) ==
    IF i > Len(source) THEN depth > 0
    ELSE LET c == source[i]
         IN  IF c = "(" THEN SyntaxErrorFrom(source, i + 1, depth + 1, "none")
             ELSE IF c = ")"
             THEN depth = 0 \/ SyntaxErrorFrom(source, i + 1, depth - 1, "atom")
             ELSE IF c \in {"*", "+"}
             THEN prev # "atom" \/ SyntaxErrorFrom(source, i + 1, depth, "quantifier")
             ELSE IF c = "?"
             THEN prev \notin {"atom", "quantifier"}
                  \/ SyntaxErrorFrom(source, i + 1, depth,
                                     IF prev = "atom" THEN "quantifier" ELSE "lazy")
             ELSE SyntaxErrorFrom(source, i + 1, depth, "atom")

SyntaxError(source) == SyntaxErrorFrom(source, 1, 0, "none")

\* Line 1221: the source of the expression of a pattern with a "*".
WildcardSource(pattern) == ReplaceAll(pattern, <<"*">>, <<".", "*">>)

\* The callback of patterns.some throws: the pattern is one line 1221
\* makes an expression of, and new RegExp does not take it.
PatternThrows(pattern) ==
    /\ ~EndsWith(pattern, <<"/">>)
    /\ Includes(pattern, <<"*">>)
    /\ SyntaxError(WildcardSource(pattern))

\* Lines 1211-1213: the patterns in force.
PatternsInForce(configured, gi) ==
    IF Len(configured) > 0 THEN configured ELSE loadGitignorePatterns(gi)

\* Line 1571 taking any environment to hold a key.
AnyApiKey(environment) == TRUE

\* Lines 1570-1571: apiKey is truthy.
HasApiKey(environment) == environment.ANTHROPIC_API_KEY

\* Lines 1564-1580: initialize (255-272) sets CONFIG.ignorePatterns to what
\* loadGitignorePatterns returns, then the key is looked for.
RunCheckApiKey ==
    /\ pc = "run" /\ ~args.help
    /\ ignorePatterns' = loadGitignorePatterns(gitignore)
    /\ IF ~HasApiKey(env)
       THEN Exit(1, {"initialize", "Set ANTHROPIC_API_KEY environment variable"})
       ELSE /\ pc' = "getRange"
            /\ events' = events \cup {"initialize"}
            /\ UNCHANGED exitCode
    /\ UNCHANGED <<args, env, config, previewFile, requests, fileWrites, result,
                   filePath, gitignore, scopeMapping, ignored, scope,
                   filterVars, versionVars, formatVars, diffVars, parseVars,
                   sessionVars, buildVars>>

\* Line 1512: baseBranch.split('/')[0].
RemoteOf(baseBranch) ==
    LET slashes == {i \in DOMAIN baseBranch : baseBranch[i] = "/"}
    IN  IF slashes = {} THEN baseBranch
        ELSE SubSeq(baseBranch, 1, Min(slashes) - 1)

\* Line 1513: remote && remote !== baseBranch.
FetchesRemote(baseBranch) ==
    RemoteOf(baseBranch) # <<>> /\ RemoteOf(baseBranch) # baseBranch

\* Lines 1511-1521: the remote of the base branch is fetched when the name
\* has one, and the range is returned.
CompareWith(baseBranch) ==
    /\ pc' = "changedFiles"
    /\ events' = events \cup (IF FetchesRemote(baseBranch) THEN {"fetchRemote"} ELSE {})
    /\ UNCHANGED exitCode

\* Lines 1583-1584 and getRange (1490-1522) up to the await of line 1507:
\* an explicit range, one whose value is missing (range.split then
\* throws), a base branch given with --base, or none: then a selector is
\* made and select() called.
RunGetRange ==
    /\ pc = "getRange"
    /\ \/ /\ args.range = "range"
          /\ pc' = "changedFiles"
          /\ UNCHANGED <<events, exitCode>>
       \/ /\ args.range = "missing"
          /\ Catch("TypeError")
       \/ /\ args.range = "base"
          /\ CompareWith(args.base)
       \/ /\ args.range = "interactive"
          /\ pc' = "build"
          /\ events' = events \cup {"select"}
          /\ UNCHANGED exitCode
    /\ UNCHANGED <<args, env, config, previewFile, requests, fileWrites, result,
                   filterVars, versionVars, formatVars, diffVars, parseVars,
                   classifyVars, sessionVars, buildVars>>

\* getRange after the await of line 1507 (lines 1511-1521): the promise of
\* select() resolved to a branch.
RunBaseSelected ==
    /\ pc = "resolved"
    /\ CompareWith(resolved)
    /\ UNCHANGED <<args, env, config, previewFile, requests, fileWrites, result,
                   filterVars, versionVars, formatVars, diffVars, parseVars,
                   classifyVars, sessionVars, buildVars>>

\* Lines 1590-1598: no changed file is left after the filter, or one is.
\* For a file to be left shouldIgnore has called the callback with every
\* pattern; with a pattern new RegExp does not take it has thrown, and
\* the catch block of run ends the process.
RunChangedFiles ==
    /\ pc = "changedFiles"
    /\ \E relevantFiles \in 0..1 :
          IF relevantFiles = 0
          THEN Exit(0, {"No relevant changes found"})
          ELSE IF \E i \in DOMAIN PatternsInForce(ignorePatterns, gitignore) :
                    PatternThrows(PatternsInForce(ignorePatterns, gitignore)[i])
          THEN Catch("Invalid regular expression")
          ELSE /\ pc' = "versionCheck"
               /\ UNCHANGED <<events, exitCode>>
    /\ UNCHANGED <<args, env, config, previewFile, requests, fileWrites, result,
                   filterVars, versionVars, formatVars, diffVars, parseVars,
                   classifyVars, sessionVars, buildVars>>

\* Lines 1600-1617.
RunVersionCheck ==
    /\ pc = "versionCheck"
    /\ nextVersion' = getNextVersion(changelog, shouldIncureaseVersion)
    /\ IF OutputFile.exists /\ versionPattern(OutputFile, nextVersion')
       THEN IF ~args.dry
            THEN Exit(1, {"Version already exists"})
            ELSE /\ pc' = "callAI"
                 /\ events' = events \cup {"Version already exists"}
                 /\ UNCHANGED exitCode
       ELSE /\ pc' = "callAI"
            /\ UNCHANGED <<events, exitCode>>
    /\ UNCHANGED <<args, env, config, previewFile, requests, fileWrites, result,
                   changelog, shouldIncureaseVersion,
                   filterVars, formatVars, diffVars, parseVars,
                   classifyVars, sessionVars, buildVars>>

(***************************************************************************)
(* The inputs and the steps of a run                                       *)
(***************************************************************************)

\* The texts the endpoint answers with: none, prose only, an object, an
\* object within prose, and an object followed by prose with a brace.
RunTexts ==
    { <<>>, <<"x">>, <<"{", "}">>, <<"x", "{", "k", "}", "x">>,
      <<"{", "}", "x", "}">> }

RunEntry(t) == [type |-> t, category |-> "", scope |-> "ui", description |-> 0]

\* The entries of a parsed response: none, and lists with and without a
\* breaking change.
RunEntryLists ==
    { <<>>, Described(<<RunEntry("feat")>>), Described(<<RunEntry("breaking")>>),
      Described(<<RunEntry("fix"), RunEntry("breaking")>>) }

\* The objects a response parses to: without 'entries', and with each list.
RunResults == {NoResult} \cup {[present |-> TRUE, entries |-> l] : l \in RunEntryLists}

\* The files there may be before the run.
RunFiles ==
    { NoFile,
      File(<<>>),
      File(<<TitleLine, DescriptionLine>>),
      Unterminated(<<TitleLine, DescriptionLine>>),
      CarriageReturns(<<TitleLine, DescriptionLine>>),
      File(<< TitleLine, DescriptionLine,
                    [head |-> "## [", ver |-> << <<1>>, <<2>>, <<3>> >>,
                     close |-> "] - date"] >>),
      File(<< TitleLine,
                    [head |-> "## [", ver |-> << <<1>>, <<2>>, <<3>> >>,
                     close |-> "] - date"],
                    [head |-> "## [", ver |-> << <<1>>, <<2>>, <<4>> >>,
                     close |-> "]"] >>) }

\* The files there may be at CONFIG.output.file when that is another path.
RunPreviewFiles ==
    { NoFile,
      File(<<PreviewTitleLine>>),
      File(<< PreviewTitleLine,
                    [head |-> "## [", ver |-> << <<1>>, <<2>>, <<3>> >>,
                     close |-> "] - date"] >>) }

\* Lines 1619-1625 and generateChangelog up to the await of line 802: the
\* request is sent.
RunCallAI ==
    /\ pc = "callAI"
    /\ requests' = requests + 1
    /\ pc' = "fetch"
    /\ UNCHANGED <<args, env, config, previewFile, fileWrites, events, exitCode, result,
                   filterVars, versionVars, formatVars, diffVars, parseVars,
                   classifyVars, sessionVars, buildVars>>

\* Lines 802-825: fetch rejects, or it resolves with a status that is not
\* a success, or with one that is; the body is awaited.
RunFetchSettled ==
    /\ pc = "fetch"
    /\ \/ Catch("fetch failed")
       \/ /\ pc' = "errorBody"
          /\ UNCHANGED <<events, exitCode>>
       \/ /\ pc' = "body"
          /\ UNCHANGED <<events, exitCode>>
    /\ UNCHANGED <<args, env, config, previewFile, requests, fileWrites, result,
                   filterVars, versionVars, formatVars, diffVars, parseVars,
                   classifyVars, sessionVars, buildVars>>

\* Lines 819-821: response.text() settles and the error is thrown, or
\* response.text() rejects.
RunErrorBody ==
    /\ pc = "errorBody"
    /\ \/ Catch("Claude API error")
       \/ Catch("response.text failed")
    /\ UNCHANGED <<args, env, config, previewFile, requests, fileWrites, result,
                   filterVars, versionVars, formatVars, diffVars, parseVars,
                   classifyVars, sessionVars, buildVars>>

\* Lines 824-832 and 1625: response.json() rejects, the body is the JSON
\* null (data.content then throws), the text is missing or empty,
\* parseResponse throws, or the parsed result is returned to run().
RunBody ==
    /\ pc = "body"
    /\ \/ /\ Catch("response.json failed")
          /\ UNCHANGED <<responseText, parsed, result>>
       \/ /\ Catch("Cannot read properties of null")
          /\ UNCHANGED <<responseText, parsed, result>>
       \/ \E text \in RunTexts :
            /\ responseText' = text
            /\ IF text = <<>>
               THEN /\ Catch("No response from Claude")
                    /\ UNCHANGED <<parsed, result>>
               ELSE /\ parsed' = parseResponse(text)
                    /\ IF ~parsed'.ok
                       THEN /\ Catch("Invalid JSON response")
                            /\ UNCHANGED result
                       ELSE /\ \E r \in RunResults : result' = r
                            /\ pc' = "result"
                            /\ events' = events \cup {"generateChangelog returned"}
                            /\ UNCHANGED exitCode
    /\ UNCHANGED <<args, env, config, previewFile, requests, fileWrites,
                   filterVars, versionVars, formatVars, diffVars,
                   classifyVars, sessionVars, buildVars>>

\* Lines 1627-1632.
RunCheckEntries ==
    /\ pc = "result"
    /\ IF ~HasEntries(result)
       THEN Exit(0, {"No user-facing changes detected"})
       ELSE /\ pc' = "checkBreaking"
            /\ UNCHANGED <<events, exitCode>>
    /\ UNCHANGED <<args, env, config, previewFile, requests, fileWrites, result,
                   filterVars, versionVars, formatVars, diffVars, parseVars,
                   classifyVars, sessionVars, buildVars>>

\* Lines 1634-1637.
RunCheckBreaking ==
    /\ pc = "checkBreaking"
    /\ IF checkBreakingChanges(result.entries, config, env)
       THEN Exit(1, {"checkBreakingChanges", "Push blocked due to breaking changes"})
       ELSE /\ pc' = "format"
            /\ events' = events \cup {"checkBreakingChanges"}
            /\ UNCHANGED exitCode
    /\ UNCHANGED <<args, env, config, previewFile, requests, fileWrites, result,
                   filterVars, versionVars, formatVars, diffVars, parseVars,
                   classifyVars, sessionVars, buildVars>>

\* Lines 1639-1646.
RunFormat ==
    /\ pc = "format"
    /\ output' = formatMarkdown(result.entries,
                                getNextVersion(changelog, shouldIncureaseVersion))
    /\ pc' = "write"
    /\ events' = events \cup {"formatMarkdown"}
    /\ UNCHANGED <<args, env, config, previewFile, requests, fileWrites, exitCode,
                   result, entries, filterVars, versionVars, diffVars, parseVars,
                   classifyVars, sessionVars, buildVars>>

\* Lines 1648-1653 and writeChangelog (1334-1344): nothing on a dry run;
\* otherwise one writeFileSync, which writes the file or throws.
RunWrite ==
    /\ pc = "write"
    /\ IF ~WritesOutput(args)
       THEN /\ Exit(0, {"DRY RUN - no files written"})
            /\ UNCHANGED <<changelog, previewFile, fileWrites>>
       ELSE \/ /\ fileWrites' = fileWrites + 1
               /\ IF AppendsToChangelog(config)
                  THEN /\ changelog' = appendToChangelog(changelog, ToLines(output))
                       /\ UNCHANGED previewFile
                  ELSE IF config.outputFile = "CHANGELOG.md"
                  THEN /\ changelog' =
                            File(writeNewFile(ToLines(output)))
                       /\ UNCHANGED previewFile
                  ELSE /\ previewFile' =
                            File(writeNewFile(ToLines(output)))
                       /\ UNCHANGED changelog
               /\ Exit(0, {"Written to"})
            \/ /\ Catch("writeFileSync failed")
               /\ UNCHANGED <<changelog, previewFile, fileWrites>>
    /\ UNCHANGED <<args, env, config, requests, result,
                   shouldIncureaseVersion, nextVersion,
                   filterVars, formatVars, diffVars, parseVars,
                   classifyVars, sessionVars, buildVars>>

\* The run got a parsed response without entries.
EmptyResult ==
    /\ "generateChangelog returned" \in events
    /\ (~result.present \/ result.entries = <<>>)

\* The request failed: a non-success status, no text, or text that does
\* not parse.
RequestFailures ==
    {"Claude API error", "No response from Claude", "Invalid JSON response"}

\* C8: the output file is written at most once in a run; a write happens
\* only without --dry, after a response was parsed with at least one entry
\* and after the breaking-change check let the run pass; a run with --dry,
\* without relevant files, with no entries or ending in an error has
\* written nothing, and no step but the write of a run without --dry
\* changes a file.
C8_WriteOnlyAtTheEnd ==
    /\ [](/\ fileWrites <= 1
          /\ fileWrites = 1 =>
                /\ ~args.dry
                /\ parsed.ok /\ result.present /\ Len(result.entries) >= 1
                /\ "checkBreakingChanges" \in events
                /\ "Push blocked due to breaking changes" \notin events
                /\ output # <<>>
          /\ (\/ args.dry
              \/ "No relevant changes found" \in events
              \/ EmptyResult
              \/ exitCode = 1) => fileWrites = 0)
    /\ [][(changelog' # changelog \/ previewFile' # previewFile
                \/ fileWrites' # fileWrites)
            => (/\ pc = "write" /\ ~args.dry
                /\ fileWrites' = fileWrites + 1
                /\ pc' = "exited" /\ exitCode' = 0)]_vars

\* A run without --dry has written the changelog, after the title and the
\* description it had.
C8_Witness ==
    /\ pc = "exited" /\ exitCode = 0
    /\ fileWrites = 1 /\ ~args.dry
    /\ "Written to" \in events
    /\ Len(changelog.lines) > 3
    /\ changelog.lines[3] = ToLine(output[1])

\* C9: when the parsed response has no entries, or an empty list of them,
\* the next step of the run reports that there are no user-facing changes
\* and ends it with exit code 0, and the run has not formatted, has not
\* checked for breaking changes and has written nothing.
C9_EmptyEntriesEndNormally ==
    /\ [][(pc = "result" /\ EmptyResult)
            => (/\ pc' = "exited" /\ exitCode' = 0
                /\ "No user-facing changes detected" \in events'
                /\ UNCHANGED <<output, changelog, previewFile, fileWrites>>)]_vars
    /\ [](EmptyResult =>
            /\ "formatMarkdown" \notin events
            /\ "checkBreakingChanges" \notin events
            /\ output = <<>>
            /\ fileWrites = 0
            /\ exitCode \in {Running, 0})

\* A run ended normally on a response without the property 'entries'.
C9_Witness ==
    /\ pc = "exited" /\ exitCode = 0
    /\ "generateChangelog returned" \in events
    /\ ~result.present
    /\ "No user-facing changes detected" \in events

\* C10: a run sends at most one request; once the request has failed (a
\* non-success status, no text, or text that does not parse) the run has
\* ended with exit code 1, having sent that one request and written
\* nothing.
C10_OneRequestNoRetry ==
    /\ requests <= 1
    /\ (events \cap RequestFailures # {}) =>
            /\ pc = "exited" /\ exitCode = 1
            /\ requests = 1
            /\ fileWrites = 0
            /\ output = <<>>

\* A run ended with exit code 1 on a response whose object is followed by
\* a closing brace.
C10_Witness ==
    /\ pc = "exited" /\ exitCode = 1
    /\ "Invalid JSON response" \in events
    /\ responseText = <<"{", "}", "x", "}">>
    /\ requests = 1

\* The entries generateChangelog returned include one of type 'breaking'.
HasBreakingEntry == \E i \in DOMAIN result.entries : result.entries[i].type = "breaking"

\* The policy is on, there is a breaking entry and no override.
MustBlock ==
    /\ config.blockBreakingChanges
    /\ HasBreakingEntry
    /\ ~env.BREAKING_OK

\* C11: with the blocking policy on, a breaking entry and no BREAKING_OK,
\* the breaking-change check ends the run with exit code 1 and nothing is
\* written; with the override set, the policy off or no breaking entry, the
\* check lets the run go on to formatting.
C11_BreakingBlock ==
    /\ [][pc = "checkBreaking"
            => IF MustBlock
               THEN /\ pc' = "exited" /\ exitCode' = 1
                    /\ "Push blocked due to breaking changes" \in events'
                    /\ UNCHANGED <<changelog, previewFile, fileWrites>>
               ELSE /\ pc' = "format" /\ exitCode' = Running
                    /\ "Push blocked due to breaking changes" \notin events']_vars
    /\ [](("checkBreakingChanges" \in events /\ MustBlock)
            => (pc = "exited" /\ exitCode = 1 /\ fileWrites = 0 /\ output = <<>>))
    /\ []("Push blocked due to breaking changes" \in events => MustBlock)

\* A run was blocked on its breaking entry.
C11_Witness ==
    /\ pc = "exited" /\ exitCode = 1
    /\ "Push blocked due to breaking changes" \in events
    /\ Len(result.entries) = 2
    /\ fileWrites = 0

\* A run with the policy on and a breaking entry wrote its file under the
\* override.
C11_WitnessOverride ==
    /\ pc = "exited" /\ exitCode = 0
    /\ config.blockBreakingChanges /\ HasBreakingEntry /\ env.BREAKING_OK
    /\ fileWrites = 1

\* C12: without ANTHROPIC_API_KEY, the first step of a run other than
\* --help ends it with exit code 1, and the run has started no branch
\* selector, sent no request and written no file.
C12_MissingKeyIsFatal ==
    /\ [][(pc = "run" /\ ~args.help /\ ~env.ANTHROPIC_API_KEY)
            => (/\ pc' = "exited" /\ exitCode' = 1
                /\ "Set ANTHROPIC_API_KEY environment variable" \in events')]_vars
    /\ []((~args.help /\ ~env.ANTHROPIC_API_KEY)
            => /\ pc \in {"run", "exited"}
               /\ "select" \notin events
               /\ requests = 0
               /\ fileWrites = 0
               /\ exitCode \in {Running, 1})

\* A run without the key has ended with exit code 1, although its
\* arguments ask for the selector and a file to append to exists.
C12_Witness ==
    /\ pc = "exited" /\ exitCode = 1
    /\ ~env.ANTHROPIC_API_KEY /\ ~args.help
    /\ args.range = "interactive" /\ ~args.dry
    /\ changelog.exists
    /\ "Set ANTHROPIC_API_KEY environment variable" \in events

\* C13: with the empty query, filterBranches returns the list of
\* buildBranchList as it is: the same names in the same order.
C13_EmptyQueryKeepsList ==
    (pc = "filtered" /\ searchQuery = <<>>) => filteredBranches = allBranches

\* The empty query was applied to a list of two names that is not in
\* alphabetical order.
C13_Witness ==
    /\ pc = "filtered" /\ searchQuery = <<>>
    /\ allBranches = << <<"b", "a">>, <<"a", "b">> >>
    /\ filteredBranches = allBranches

(***************************************************************************)
(* FileAnalyzer.shouldIgnore (src/changelog.mjs:1209-1227)                 *)
(*                                                                         *)
(* Paths and patterns are strings of the characters their pools use; of    *)
(* the characters special in a regular expression they hold ".", "*" and   *)
(* "+".                                                                    *)
(***************************************************************************)

\* new RegExp(source) of a source without groups that does not throw: the
\* atoms of the expression, each [kind, ch, star, plus]; "." is any
\* character, "[^/]" (one element of the source here) any character but
\* "/", a "*" repeats the atom before it any number of times and a "+" at
\* least once, anything else is itself.
RECURSIVE RegExpFrom(_, _)
RegExpFrom(source, i) ==
    IF i > Len(source) THEN <<>>
    ELSE LET c == source[i]
             star == i < Len(source) /\ source[i + 1] = "*"
             plus == i < Len(source) /\ source[i + 1] = "+"
             atom == [kind |-> IF c = "." THEN "any"
                               ELSE IF c = "[^/]" THEN "notslash" ELSE "lit",
                      ch |-> c, star |-> star, plus |-> plus]
         IN  <<atom>> \o RegExpFrom(source, IF star \/ plus THEN i + 2 ELSE i + 1)

RegExp(source) == RegExpFrom(source, 1)

\* The character c is one the atom stands for.
AtomAccepts(atom, c) ==
    CASE atom.kind = "any" -> TRUE
      [] atom.kind = "notslash" -> c # "/"
      [] OTHER -> c = atom.ch

\* The atoms from the k-th on match s from position i on, up to anywhere.
RECURSIVE MatchHere(_, _, _, _)
MatchHere(atoms, k, s, i) ==
    IF k > Len(atoms) THEN TRUE
    ELSE IF atoms[k].star \/ atoms[k].plus
    THEN \E j \in (IF atoms[k].plus THEN i + 1 ELSE i)..(Len(s) + 1) :
            /\ \A n \in i..(j - 1) : AtomAccepts(atoms[k], s[n])
            /\ MatchHere(atoms, k + 1, s, j)
    ELSE /\ i <= Len(s)
         /\ AtomAccepts(atoms[k], s[i])
         /\ MatchHere(atoms, k + 1, s, i + 1)

\* RegExp.prototype.test of an expression without anchors.
RegexTest(atoms, s) == \E i \in 1..(Len(s) + 1) : MatchHere(atoms, 1, s, i)

\* The callback of patterns.some, lines 1215-1226, where it returns.
PatternMatches(pattern, f) ==
    IF EndsWith(pattern, <<"/">>) THEN StartsWith(f, pattern)
    ELSE IF Includes(pattern, <<"*">>)
    THEN RegexTest(RegExp(WildcardSource(pattern)), f)
    ELSE Includes(f, pattern) \/ EndsWith(f, pattern)

\* Array.prototype.some, line 1215: the callback is called pattern by
\* pattern until it returns true or throws. The index of the pattern it
\* stops at, 0 when it returned false for all.
StopsAt(patterns, f) ==
    LET decisive == { i \in DOMAIN patterns :
                        PatternThrows(patterns[i]) \/ PatternMatches(patterns[i], f) }
    IN  IF decisive = {} THEN 0
        ELSE CHOOSE i \in decisive : \A j \in decisive : i <= j

\* Lines 1209-1227: shouldIgnore throws the SyntaxError of new RegExp.
shouldIgnoreThrows(f, configured, gi) ==
    LET patterns == PatternsInForce(configured, gi)
        k == StopsAt(patterns, f)
    IN  k > 0 /\ PatternThrows(patterns[k])

\* Lines 1209-1227: what shouldIgnore returns when it returns.
shouldIgnore(f, configured, gi) ==
    LET patterns == PatternsInForce(configured, gi)
        k == StopsAt(patterns, f)
    IN  k > 0 /\ ~PatternThrows(patterns[k])

(***************************************************************************)
(* SpecIgnore: shouldIgnore applied to bounded pattern sets                *)
(***************************************************************************)

MaxPatterns == 2

PatternPool ==
    { <<"n", "o", "d", "e", "_", "m", "o", "d", "u", "l", "e", "s", "/">>,
      <<"d", "i", "s", "t", "/">>,
      <<"*", ".", "m", "i", "n", ".", "j", "s">>,
      <<"*", ".", "l", "o", "g">>,
      <<".", "e", "n", "v">>,
      <<"R", "E", "A", "D", "M", "E">>,
      <<"s", "r", "c", "/", "*", ".", "j", "s">>,
      <<"*", ".", "c", "+", "+">>,
      <<"l", "o", "g", "+", "*">> }

IgnoreFiles ==
    { <<"n", "o", "d", "e", "_", "m", "o", "d", "u", "l", "e", "s", "/", "x", ".", "j", "s">>,
      <<"s", "r", "c", "/", "a", "p", "p", ".", "j", "s">>,
      <<"d", "i", "s", "t", "/", "a", "p", "p", ".", "m", "i", "n", ".", "j", "s">>,
      <<"s", "r", "c", "/", "d", "i", "s", "t", "/", "a", ".", "j", "s">>,
      <<"a", "p", "p", ".", "l", "o", "g">>,
      <<"l", "o", "g", "s", "/", "a", "p", "p", ".", "l", "o", "g", ".", "t", "x", "t">>,
      <<".", "e", "n", "v", ".", "l", "o", "c", "a", "l">>,
      <<"R", "E", "A", "D", "M", "E", ".", "m", "d">>,
      <<"s", "r", "c", "/", "x", "a", "m", "i", "n", "b", "j", "s">>,
      <<"k", "e", "y", ".", "p", "e", "m">>,
      <<"m", "a", "i", "n", ".", "c", "+", "+">> }

\* No .gitignore, and one with up to MaxPatterns lines that are patterns.
Gitignores ==
    { NoGitignore }
        \cup { [exists |-> TRUE, patterns |-> patterns] :
                    patterns \in DistinctSeqs(PatternPool, MaxPatterns) }

\* run() at line 1591: initialize (line 257) has set CONFIG.ignorePatterns
\* to what loadGitignorePatterns returns.
InitIgnore ==
    /\ pc = "ignore"
    /\ filePath \in IgnoreFiles
    /\ gitignore \in Gitignores
    /\ ignorePatterns = loadGitignorePatterns(gitignore)
    /\ scopeMapping = <<>> /\ ignored = FALSE /\ scope = <<>>
    /\ FilterIdle /\ VersionIdle /\ FormatIdle /\ DiffIdle /\ ParseIdle /\ RunIdle
    /\ SessionIdle /\ BuildIdle

\* relevantFiles, line 1591: this.fileAnalyzer.shouldIgnore(file)
CallShouldIgnore ==
    /\ pc = "ignore"
    /\ IF shouldIgnoreThrows(filePath, ignorePatterns, gitignore)
       THEN pc' = "threw" /\ UNCHANGED ignored
       ELSE /\ ignored' = shouldIgnore(filePath, ignorePatterns, gitignore)
            /\ pc' = "ignored"
    /\ UNCHANGED <<filePath, ignorePatterns, gitignore, scopeMapping, scope,
                   filterVars, versionVars, formatVars, diffVars, parseVars, runVars,
                   sessionVars, buildVars>>

NextIgnore == CallShouldIgnore

SpecIgnore == InitIgnore /\ [][NextIgnore]_vars

\* The orders the patterns of a list are checked in: every order of a list
\* of up to MaxPatterns + 1 patterns; of a longer one, as the twelve
\* defaults, the list itself, the list reversed and each of its rotations.
Reorderings(list) ==
    IF Len(list) <= MaxPatterns + 1
    THEN { [i \in DOMAIN list |-> list[f[i]]] : f \in Permutations(DOMAIN list) }
    ELSE { list, [i \in DOMAIN list |-> list[Len(list) + 1 - i]] }
            \cup { [i \in DOMAIN list |-> list[((i + r - 1) % Len(list)) + 1]] :
                        r \in 1..Len(list) }

\* shouldIgnore returned for the path, true exactly when a pattern of the
\* set matches it by the rule of lines 1216-1225, and returns the same
\* whatever the order of the set.
ReturnsWhetherSomePatternMatches ==
    /\ pc = "ignored"
    /\ ignored <=> \E i \in DOMAIN ignorePatterns :
                        PatternMatches(ignorePatterns[i], filePath)
    /\ \A list \in Reorderings(ignorePatterns) :
            /\ ~shouldIgnoreThrows(filePath, list, gitignore)
            /\ shouldIgnore(filePath, list, gitignore) = ignored

\* C14: for every path and every configured pattern set, the empty one
\* included, shouldIgnore returns true exactly when a pattern of the set
\* matches the path by its rule (prefix, wildcard or substring), and
\* returns the same for every order of the set.
C14_IgnoreIffSomePatternMatches ==
    pc # "ignore" => ReturnsWhetherSomePatternMatches

\* The same for the pattern sets new RegExp takes every wildcard pattern
\* of.
C14_HoldsWhereNoPatternThrows ==
    (pc # "ignore" /\ \A i \in DOMAIN ignorePatterns : ~PatternThrows(ignorePatterns[i]))
        => ReturnsWhetherSomePatternMatches

(***************************************************************************)
(* FileAnalyzer.getScope (src/changelog.mjs:1235-1264)                     *)
(***************************************************************************)

\* Lines 1238-1240: the expression of a mapping pattern; the second replace
\* also sees the "*" the first one wrote.
ScopeRegExp(pattern) ==
    RegExp(ReplaceAll(ReplaceAll(pattern, <<"*", "*">>, <<".", "*">>),
                      <<"*">>, <<"[^/]", "*">>))

\* Lines 1237-1242: the scope of the first mapping rule that matches, in
\* the order of Object.entries; <<>> when none does.
RECURSIVE MappedScopeFrom(_, _, _)
MappedScopeFrom(f, mapping, i) ==
    IF i > Len(mapping) THEN <<>>
    ELSE IF RegexTest(ScopeRegExp(mapping[i].pattern), f) THEN mapping[i].scope
    ELSE MappedScopeFrom(f, mapping, i + 1)

\* Lines 1245-1263: the scope detected from the path.
AutoScope(f) ==
    LET parts == Split(f, {"/"})
    IN  IF Includes(f, <<".", "c", "o", "n", "f", "i", "g", ".">>) \/ Includes(f, <<"c", "o", "n", "f", "i", "g", "/">>)
        THEN <<"c", "o", "n", "f", "i", "g">>
        ELSE IF Includes(f, <<"t", "e", "s", "t">>) \/ Includes(f, <<"s", "p", "e", "c">>)
        THEN <<"t", "e", "s", "t", "s">>
        ELSE IF Includes(f, <<"d", "o", "c", "s", "/">>) \/ Includes(f, <<"R", "E", "A", "D", "M", "E">>)
        THEN <<"d", "o", "c", "s">>
        ELSE IF parts[1] = <<"s", "r", "c">> /\ Len(parts) > 2 THEN parts[2]
        ELSE IF Len(parts) > 1 THEN parts[1]
        ELSE <<"c", "o", "r", "e">>

\* Lines 1245-1263 with the path segments looked at before the hints.
SegmentsBeforeHints(f, mapping) ==
    LET parts == Split(f, {"/"})
    IN  IF parts[1] = <<"s", "r", "c">> /\ Len(parts) > 2 THEN parts[2]
        ELSE IF Len(parts) > 1 THEN parts[1]
        ELSE IF Includes(f, <<".", "c", "o", "n", "f", "i", "g", ".">>) \/ Includes(f, <<"c", "o", "n", "f", "i", "g", "/">>)
        THEN <<"c", "o", "n", "f", "i", "g">>
        ELSE IF Includes(f, <<"t", "e", "s", "t">>) \/ Includes(f, <<"s", "p", "e", "c">>)
        THEN <<"t", "e", "s", "t", "s">>
        ELSE IF Includes(f, <<"d", "o", "c", "s", "/">>) \/ Includes(f, <<"R", "E", "A", "D", "M", "E">>)
        THEN <<"d", "o", "c", "s">>
        ELSE <<"c", "o", "r", "e">>

\* Lines 1235-1264.
getScope(f, mapping) ==
    IF \E i \in DOMAIN mapping : RegexTest(ScopeRegExp(mapping[i].pattern), f)
    THEN MappedScopeFrom(f, mapping, 1)
    ELSE AutoScope(f)

(***************************************************************************)
(* SpecScope: getScope applied to bounded paths                            *)
(***************************************************************************)

MaxSegments == 3

SegmentPool ==
    { <<"s", "r", "c">>,
      <<"c", "o", "m", "p", "o", "n", "e", "n", "t", "s">>,
      <<"B", "u", "t", "t", "o", "n", ".", "t", "s", "x">>,
      <<"d", "o", "c", "s">>,
      <<"R", "E", "A", "D", "M", "E", ".", "m", "d">>,
      <<"t", "e", "s", "t", "s">>,
      <<"u", "n", "i", "t">>,
      <<"a", "u", "t", "h", ".", "t", "e", "s", "t", ".", "j", "s">>,
      <<"c", "o", "n", "f", "i", "g">>,
      <<"v", "i", "t", "e", ".", "c", "o", "n", "f", "i", "g", ".", "j", "s">>,
      <<"l", "i", "b">>,
      <<"i", "n", "s", "p", "e", "c", "t", "o", "r", ".", "j", "s">>,
      <<"i", "n", "d", "e", "x", ".", "j", "s">> }

\* Array.prototype.join("/")
RECURSIVE Join(_)
Join(parts) ==
    IF Len(parts) = 0 THEN <<>>
    ELSE IF Len(parts) = 1 THEN parts[1]
    ELSE parts[1] \o <<"/">> \o Join(Tail(parts))

Paths == {Join(p) : p \in StringsOver(SegmentPool, 1, MaxSegments)}

\* CONFIG.scopeMapping: empty as the file sets it (line 39), or with rules.
ScopeMappings ==
    { <<>>,
      << [pattern |-> <<"s", "r", "c", "/", "*", "*">>, scope |-> <<"s", "o", "u", "r", "c", "e">>] >>,
      << [pattern |-> <<"l", "i", "b", "/", "*", ".", "j", "s">>, scope |-> <<"l", "i", "b", "r", "a", "r", "y">>],
         [pattern |-> <<"*", ".", "m", "d">>, scope |-> <<"m", "a", "r", "k", "d", "o", "w", "n">>] >> }

InitScope ==
    /\ pc = "scope"
    /\ filePath \in Paths
    /\ scopeMapping \in ScopeMappings
    /\ ignorePatterns = <<>> /\ gitignore = NoGitignore
    /\ ignored = FALSE /\ scope = <<>>
    /\ FilterIdle /\ VersionIdle /\ FormatIdle /\ DiffIdle /\ ParseIdle /\ RunIdle
    /\ SessionIdle /\ BuildIdle

\* analyzeChanges, line 1276: this.getScope(file)
CallGetScope ==
    /\ pc = "scope"
    /\ scope' = getScope(filePath, scopeMapping)
    /\ pc' = "scoped"
    /\ UNCHANGED <<filePath, ignorePatterns, gitignore, scopeMapping, ignored,
                   filterVars, versionVars, formatVars, diffVars, parseVars, runVars,
                   sessionVars, buildVars>>

NextScope == CallGetScope

SpecScope == InitScope /\ [][NextScope]_vars

\* No rule of the mapping matches the path.
NoMappingMatches ==
    \A i \in DOMAIN scopeMapping :
        ~RegexTest(ScopeRegExp(scopeMapping[i].pattern), filePath)

\* The scopes the hints in the path stand for.
HintScopes ==
    (IF Includes(filePath, <<".", "c", "o", "n", "f", "i", "g", ".">>) \/ Includes(filePath, <<"c", "o", "n", "f", "i", "g", "/">>)
     THEN {<<"c", "o", "n", "f", "i", "g">>} ELSE {})
    \cup (IF Includes(filePath, <<"t", "e", "s", "t">>) \/ Includes(filePath, <<"s", "p", "e", "c">>)
          THEN {<<"t", "e", "s", "t", "s">>} ELSE {})
    \cup (IF Includes(filePath, <<"d", "o", "c", "s", "/">>) \/ Includes(filePath, <<"R", "E", "A", "D", "M", "E">>)
          THEN {<<"d", "o", "c", "s">>} ELSE {})

\* The segments of the path.
Segments == Split(filePath, {"/"})

\* C15: when no mapping rule matches, the scope is that of a hint in the
\* path if there is one, else the second segment of a path of at least
\* three segments that starts with 'src', else the first segment of a path
\* of more than one segment, else 'core'; the three paths of the scenario
\* get 'components', 'docs' and 'tests'.
C15_FallbackPriority ==
    (pc = "scoped" /\ NoMappingMatches) =>
        /\ IF HintScopes # {} THEN scope \in HintScopes
           ELSE IF Segments[1] = <<"s", "r", "c">> /\ Len(Segments) >= 3
           THEN scope = Segments[2]
           ELSE IF Len(Segments) > 1 THEN scope = Segments[1]
           ELSE scope = <<"c", "o", "r", "e">>
        /\ filePath = <<"s", "r", "c", "/", "c", "o", "m", "p", "o", "n", "e", "n", "t", "s", "/", "B", "u", "t", "t", "o", "n", ".", "t", "s", "x">> => scope = <<"c", "o", "m", "p", "o", "n", "e", "n", "t", "s">>
        /\ filePath = <<"d", "o", "c", "s", "/", "R", "E", "A", "D", "M", "E", ".", "m", "d">> => scope = <<"d", "o", "c", "s">>
        /\ filePath = <<"t", "e", "s", "t", "s", "/", "u", "n", "i", "t", "/", "a", "u", "t", "h", ".", "t", "e", "s", "t", ".", "j", "s">> => scope = <<"t", "e", "s", "t", "s">>

\* The scope of 'src/components/Button.tsx' was detected without a mapping.
C15_Witness ==
    /\ pc = "scoped"
    /\ scopeMapping = <<>>
    /\ filePath = <<"s", "r", "c", "/", "c", "o", "m", "p", "o", "n", "e", "n", "t", "s", "/", "B", "u", "t", "t", "o", "n", ".", "t", "s", "x">>
    /\ scope = <<"c", "o", "m", "p", "o", "n", "e", "n", "t", "s">>

(***************************************************************************)
(* BranchSelector: a session of select() (src/changelog.mjs:527-739)       *)
(*                                                                         *)
(* selectedIndex and scrollOffset count from 0 as in the code; the element *)
(* at index i of a list is its (i + 1)-th.                                 *)
(***************************************************************************)

\* CONFIG.ui.maxBranchesDisplay
maxBranchesDisplay == 10

\* Math.min, Math.max
MathMin(a, b) == IF a <= b THEN a ELSE b
MathMax(a, b) == IF a >= b THEN a ELSE b

\* Array.prototype.join('.*?') of the characters of the query from the
\* i-th on.
RECURSIVE JoinLazy(_, _)
JoinLazy(query, i) ==
    IF i > Len(query) THEN <<>>
    ELSE (IF i > 1 THEN <<".", "*", "?">> ELSE <<>>)
            \o <<query[i]>> \o JoinLazy(query, i + 1)

\* getBranchLine, line 604: the source of the expression that marks the
\* characters of the query in a row.
HighlightSource(query) == <<"(">> \o JoinLazy(query, 1) \o <<")">>

\* getBranchLine(index), lines 603-604, throws: the query is not empty, the
\* row is not the selected one, and new RegExp does not take the source.
getBranchLineThrows(query, index, sel) ==
    /\ query # <<>>
    /\ index # sel
    /\ SyntaxError(HighlightSource(query))

\* display(), lines 544-573, filtered being the list line 542 has assigned
\* to filteredBranches: the cursor and the window as display leaves them,
\* the branch rows written and whether
\* the scroll indicator was written, whether the line 'No branches match
\* your search' was written (line 545), the indexes at which getBranchLine
\* read the list (line 562), and whether getBranchLine threw: then the
\* loop of lines 562-564 ended at that row, the first of the window that
\* is not the selected one, and line 572 wrote nothing.
Display(filtered, query, sel, off) ==
    IF Len(filtered) = 0
    THEN [selectedIndex |-> sel, scrollOffset |-> off, rendered |-> <<>>,
          indicator |-> FALSE, noMatches |-> TRUE, reads |-> {}, threw |-> FALSE]
    ELSE LET reset == sel >= Len(filtered)
             index == IF reset THEN 0 ELSE sel
             start == IF reset THEN 0 ELSE off
             end == MathMin(start + maxBranchesDisplay, Len(filtered))
             row == IF start = index THEN start + 1 ELSE start
         IN  IF row < end /\ getBranchLineThrows(query, row, index)
             THEN [selectedIndex |-> index, scrollOffset |-> start,
                   rendered |-> <<>>, indicator |-> FALSE, noMatches |-> FALSE,
                   reads |-> start..row, threw |-> TRUE]
             ELSE [selectedIndex |-> index, scrollOffset |-> start,
                   rendered |-> [i \in 1..MathMax(end - start, 0) |->
                                    filtered[start + i]],
                   indicator |-> Len(filtered) > maxBranchesDisplay,
                   noMatches |-> FALSE, reads |-> start..(end - 1),
                   threw |-> FALSE]

\* moveSelection without the adjustment of scrollOffset.
MoveWithoutScroll(direction, sel, off, length) ==
    IF direction < 0
    THEN [selectedIndex |-> MathMax(0, sel - 1), scrollOffset |-> off]
    ELSE [selectedIndex |-> MathMin(length - 1, sel + 1), scrollOffset |-> off]

\* moveSelection, lines 639-650: the cursor and the window before display().
moveSelection(direction, sel, off, length) ==
    IF direction < 0
    THEN LET index == MathMax(0, sel - 1)
         IN  [selectedIndex |-> index,
              scrollOffset |-> IF index < off THEN index ELSE off]
    ELSE LET index == MathMin(length - 1, sel + 1)
         IN  [selectedIndex |-> index,
              scrollOffset |-> IF index >= off + maxBranchesDisplay
                               THEN index - maxBranchesDisplay + 1 ELSE off]

\* array[index]: the element, or undefined outside the array, which a
\* template literal writes as the word.
At(array, index) ==
    IF index \in 0..(Len(array) - 1) THEN array[index + 1]
    ELSE <<"u", "n", "d", "e", "f", "i", "n", "e", "d">>

\* selectCurrent without the test of line 659.
SelectWithoutGuard(filtered, sel, locals) ==
    LET selected == At(filtered, sel)
    IN  [fullBranch |-> IF selected \in locals THEN selected
                        ELSE <<"o", "r", "i", "g", "i", "n", "/">> \o selected,
         reads |-> {sel}]

\* selectCurrent, lines 658-666: what it returns (None for null) and the
\* indexes at which it read filteredBranches.
selectCurrent(filtered, sel, locals) ==
    IF Len(filtered) = 0 THEN [fullBranch |-> None, reads |-> {}]
    ELSE LET selected == At(filtered, sel)
         IN  [fullBranch |-> IF selected \in locals THEN selected
                             ELSE <<"o", "r", "i", "g", "i", "n", "/">> \o selected,
              reads |-> {sel}]

\* handleKeypress with the test for a character to add before the test for
\* q and Ctrl+C.
AddBeforeQuit(key) ==
    IF key.name = "up" THEN "up"
    ELSE IF key.name = "down" THEN "down"
    ELSE IF key.name = "return" THEN "return"
    ELSE IF key.name = "escape" THEN "escape"
    ELSE IF key.str # "" /\ ~key.ctrl /\ ~key.meta THEN "add"
    ELSE IF key.name = "q" \/ (key.ctrl /\ key.name = "c") THEN "quit"
    ELSE IF key.name = "backspace" THEN "backspace"
    ELSE "none"

\* handleKeypress, lines 616-633: the branch of the chain a key takes.
KeyBranch(key) ==
    IF key.name = "up" THEN "up"
    ELSE IF key.name = "down" THEN "down"
    ELSE IF key.name = "return" THEN "return"
    ELSE IF key.name = "escape" THEN "escape"
    ELSE IF key.name = "q" \/ (key.ctrl /\ key.name = "c") THEN "quit"
    ELSE IF key.name = "backspace" THEN "backspace"
    ELSE IF key.str # "" /\ ~key.ctrl /\ ~key.meta THEN "add"
    ELSE "none"

\* display(): line 542, then the cursor, the window and the screen as the
\* rest of it leaves them, and the session going on. Where display threw, the screen is as it was, and the
\* SyntaxError, which nothing catches in the listener of line 736, ends
\* the process.
Redisplay(query, sel, off) ==
    /\ filteredBranches' = filterBranches(allBranches, query)
    /\ LET d == Display(filteredBranches', query, sel, off)
       IN  /\ selectedIndex' = d.selectedIndex
           /\ scrollOffset' = d.scrollOffset
           /\ lastRead' = d.reads
           /\ IF d.threw
              THEN /\ pc' = "exited"
                   /\ exitCode' = 1
                   /\ events' = events \cup {"SyntaxError: Invalid regular expression"}
                   /\ UNCHANGED <<rendered, indicator, noMatches>>
              ELSE /\ rendered' = d.rendered
                   /\ indicator' = d.indicator
                   /\ noMatches' = d.noMatches
                   /\ pc' = "session"
                   /\ UNCHANGED <<exitCode, events>>

\* process.stdin.setRawMode(false) where stdin is no terminal: it has no
\* such method, the TypeError leaves the listener uncaught and ends the
\* process.
UncaughtTypeError ==
    /\ pc' = "exited"
    /\ exitCode' = 1
    /\ events' = events \cup {"TypeError: process.stdin.setRawMode is not a function"}

(***************************************************************************)
(* SpecSession: the keys of one selector session                           *)
(***************************************************************************)

\* The longest query typed.
MaxTyped == 2

Key(name, str, ctrl, meta) == [name |-> name, str |-> str, ctrl |-> ctrl, meta |-> meta]

\* The keys pressed, as readline hands them to the listener (str is "" where
\* it hands undefined: arrows, function keys and the sequences that start
\* with escape, which have meta set): the named keys, q and Q, Ctrl+C,
\* characters with and without a key name, one of them special in a
\* regular expression, Ctrl+A, Alt+b, a function key.
Keys ==
    { Key("up", "", FALSE, FALSE), Key("down", "", FALSE, FALSE),
      Key("return", "CR", FALSE, FALSE), Key("escape", "", FALSE, TRUE),
      Key("q", "q", FALSE, FALSE), Key("q", "Q", FALSE, FALSE),
      Key("c", "ETX", TRUE, FALSE), Key("backspace", "DEL", FALSE, FALSE),
      Key("a", "a", FALSE, FALSE), Key("b", "b", FALSE, FALSE),
      Key("", "-", FALSE, FALSE), Key("", "(", FALSE, FALSE),
      Key("a", "SOH", TRUE, FALSE), Key("b", "", FALSE, TRUE),
      Key("f1", "", FALSE, FALSE) }

\* The lists buildBranchList leaves, the default branch first and the
\* others sorted: one longer than the window, and short ones, one of them
\* with names that hold a "(".
SessionLists ==
    { << <<"m", "a", "s", "t", "e", "r">>,
         <<"a">>,
         <<"a", "a", "b">>,
         <<"a", "b">>,
         <<"a", "b", "a">>,
         <<"a", "b", "b">>,
         <<"b">>,
         <<"b", "a">>,
         <<"b", "a", "a">>,
         <<"b", "a", "b">>,
         <<"b", "b">>,
         <<"b", "b", "a">> >>,
      << <<"m", "a", "s", "t", "e", "r">>, <<"a", "b">>, <<"c", "-", "a", "b">> >>,
      << <<"m", "a", "s", "t", "e", "r">>, <<"a", "(", "b", ")">>, <<"b", "(", "a", ")">> >>,
      << <<"m", "a", "i", "n">> >> }

\* What getLocalBranches returns: nothing, one name, every name listed.
LocalSets(list) == { {}, {<<"a", "b">>}, {list[i] : i \in DOMAIN list} }

sessionFrame ==
    <<allBranches, localBranches, isTTY, versionVars, formatVars, diffVars, parseVars,
      classifyVars, buildVars, args, env, config, previewFile, requests, fileWrites,
      result>>

\* The selector after buildBranchList (lines 467-476), select() not yet at
\* its display.
InitSession ==
    /\ pc = "select"
    /\ allBranches \in SessionLists
    /\ filteredBranches = allBranches
    /\ searchQuery = <<>>
    /\ localBranches \in LocalSets(allBranches)
    /\ isTTY \in BOOLEAN
    /\ selectedIndex = 0 /\ scrollOffset = 0
    /\ resolved = None /\ rendered = <<>> /\ indicator = FALSE /\ lastKey = NoKey
    /\ noMatches = FALSE /\ lastRead = {}
    /\ BuildIdle
    /\ VersionIdle /\ FormatIdle /\ DiffIdle /\ ParseIdle /\ RunIdle /\ ClassifyIdle

\* select(), lines 713-737: the first display and the listener.
StartSession ==
    /\ pc = "select"
    /\ Redisplay(searchQuery, selectedIndex, scrollOffset)
    /\ UNCHANGED <<searchQuery, resolved, lastKey, sessionFrame>>

\* Lines 617-620 and moveSelection.
HandleArrow ==
    /\ pc = "session"
    /\ \E key \in Keys :
        /\ KeyBranch(key) \in {"up", "down"}
        /\ lastKey' = key
        /\ LET moved == moveSelection(IF KeyBranch(key) = "up" THEN 0 - 1 ELSE 1,
                                      selectedIndex, scrollOffset, Len(filteredBranches))
           IN  Redisplay(searchQuery, moved.selectedIndex, moved.scrollOffset)
    /\ UNCHANGED <<searchQuery, resolved, sessionFrame>>

\* Lines 621-622, selectCurrent and the listener of select() (lines 725-733).
HandleReturn ==
    /\ pc = "session"
    /\ \E key \in Keys :
        /\ KeyBranch(key) = "return"
        /\ lastKey' = key
    /\ LET current == selectCurrent(filteredBranches, selectedIndex, localBranches)
       IN  /\ lastRead' = current.reads
           /\ IF current.fullBranch = None
              THEN UNCHANGED <<pc, resolved, exitCode, events>>
              ELSE IF ~isTTY
              THEN UncaughtTypeError /\ UNCHANGED resolved
              ELSE /\ resolved' = current.fullBranch
                   /\ pc' = "resolved"
                   /\ events' = events \cup {"Selected"}
                   /\ UNCHANGED exitCode
    /\ UNCHANGED <<searchQuery, filteredBranches, selectedIndex, scrollOffset,
                   rendered, indicator, noMatches, sessionFrame>>

\* Lines 623-624 and clearSearch (671-676).
HandleEscape ==
    /\ pc = "session"
    /\ \E key \in Keys :
        /\ KeyBranch(key) = "escape"
        /\ lastKey' = key
    /\ searchQuery' = <<>>
    /\ Redisplay(<<>>, 0, 0)
    /\ UNCHANGED <<resolved, sessionFrame>>

\* Lines 625-626 and quit (681-686).
HandleQuit ==
    /\ pc = "session"
    /\ \E key \in Keys :
        /\ KeyBranch(key) = "quit"
        /\ lastKey' = key
    /\ IF ~isTTY
       THEN UncaughtTypeError
       ELSE /\ pc' = "exited"
            /\ exitCode' = 0
            /\ events' = events \cup {"Cancelled"}
    /\ lastRead' = {}
    /\ UNCHANGED <<searchQuery, filteredBranches, selectedIndex, scrollOffset,
                   rendered, indicator, noMatches, resolved, sessionFrame>>

\* Lines 627-628 and removeCharacter (691-696).
HandleBackspace ==
    /\ pc = "session"
    /\ \E key \in Keys :
        /\ KeyBranch(key) = "backspace"
        /\ lastKey' = key
    /\ searchQuery' = SubSeq(searchQuery, 1, Len(searchQuery) - 1)
    /\ Redisplay(searchQuery', 0, 0)
    /\ UNCHANGED <<resolved, sessionFrame>>

\* Lines 629-630 and addCharacter (702-707).
HandleCharacter ==
    /\ pc = "session"
    /\ Len(searchQuery) < MaxTyped
    /\ \E key \in Keys :
        /\ KeyBranch(key) = "add"
        /\ lastKey' = key
        /\ searchQuery' = Append(searchQuery, key.str)
    /\ Redisplay(searchQuery', 0, 0)
    /\ UNCHANGED <<resolved, sessionFrame>>

\* Line 632: a key no branch of the chain takes.
HandleOther ==
    /\ pc = "session"
    /\ \E key \in Keys :
        /\ KeyBranch(key) = "none"
        /\ lastKey' = key
    /\ lastRead' = {}
    /\ UNCHANGED <<pc, searchQuery, filteredBranches, selectedIndex, scrollOffset,
                   rendered, indicator, noMatches, resolved, exitCode, events,
                   sessionFrame>>

NextSession ==
    \/ StartSession
    \/ HandleArrow
    \/ HandleReturn
    \/ HandleEscape
    \/ HandleQuit
    \/ HandleBackspace
    \/ HandleCharacter
    \/ HandleOther

SpecSession == InitSession /\ [][NextSession]_vars

\* The key is q or Ctrl+C.
QuitKey(key) == key.name = "q" \/ (key.ctrl /\ key.name = "c")

\* C16: once q or Ctrl+C was pressed, in whatever state of the session,
\* the process has ended with exit code 0 and no branch was resolved; the
\* character q is never part of the search query.
C16_QuitExitsZero ==
    /\ QuitKey(lastKey) => (pc = "exited" /\ exitCode = 0 /\ resolved = None)
    /\ \A i \in DOMAIN searchQuery : searchQuery[i] # "q"

\* The same where stdin is a terminal.
C16_HoldsOnTerminal ==
    isTTY =>
        /\ QuitKey(lastKey) => (pc = "exited" /\ exitCode = 0 /\ resolved = None)
        /\ \A i \in DOMAIN searchQuery : searchQuery[i] # "q"

\* The names of a list.
Range(list) == {list[i] : i \in DOMAIN list}

\* The full reference of a name: itself when local, else under origin/.
FullReference(name) ==
    IF name \in localBranches THEN name
    ELSE <<"o", "r", "i", "g", "i", "n", "/">> \o name

\* The session ended on enter with the branch under the cursor resolved.
ResolvedCurrent ==
    /\ pc = "resolved"
    /\ selectedIndex \in 0..(Len(filteredBranches) - 1)
    /\ filteredBranches[selectedIndex + 1] \in Range(allBranches)
    /\ resolved = FullReference(filteredBranches[selectedIndex + 1])

\* C17: after any keys, enter pressed while the filtered list is not empty
\* ends the session with the branch at selectedIndex resolved, a name of
\* allBranches, as it is when local and under 'origin/' otherwise; no key
\* changes the selector afterwards.
C17_EnterResolvesCurrent ==
    /\ []((lastKey.name = "return" /\ filteredBranches # <<>>) => ResolvedCurrent)
    /\ [][pc # "resolved"]_vars

\* The same where stdin is a terminal.
C17_HoldsOnTerminal ==
    /\ []((isTTY /\ lastKey.name = "return" /\ filteredBranches # <<>>)
            => ResolvedCurrent)
    /\ [][pc # "resolved"]_vars

\* C19: selectedIndex is never negative and, while the filtered list is not
\* empty, at most its last index; an arrow key changes it by at most one.
C19_SelectionInBounds ==
    /\ [](/\ selectedIndex >= 0
          /\ filteredBranches # <<>> => selectedIndex <= Len(filteredBranches) - 1)
    /\ [][lastKey'.name \in {"up", "down"}
            => (selectedIndex' - selectedIndex) \in {0 - 1, 0, 1}]_vars

\* The same while the filtered list is not empty.
C19_HoldsForNonEmptyLists ==
    /\ [](filteredBranches # <<>> =>
            selectedIndex \in 0..(Len(filteredBranches) - 1))
    /\ [][lastKey'.name \in {"up", "down"}
            => (selectedIndex' - selectedIndex) \in {0 - 1, 0, 1}]_vars

\* C20: after every key, while the filtered list is not empty, the rows on
\* the screen are the filtered entries from index scrollOffset up to
\* min(scrollOffset + maxBranchesDisplay, length), at most
\* maxBranchesDisplay of them, the row of selectedIndex is among them, and
\* the scroll indicator is shown exactly when the list is longer than
\* maxBranchesDisplay.
C20_WindowShowsSelection ==
    (pc # "select" /\ filteredBranches # <<>>) =>
        LET length == Len(filteredBranches)
            end == IF scrollOffset + maxBranchesDisplay <= length
                   THEN scrollOffset + maxBranchesDisplay ELSE length
        IN  /\ 0 <= scrollOffset
            /\ scrollOffset <= selectedIndex
            /\ selectedIndex < scrollOffset + maxBranchesDisplay
            /\ selectedIndex < length
            /\ rendered = SubSeq(filteredBranches, scrollOffset + 1, end)
            /\ Len(rendered) <= maxBranchesDisplay
            /\ indicator <=> length > maxBranchesDisplay

\* The same while no display() has thrown.
C20_HoldsUnlessDisplayThrew ==
    (/\ pc # "select"
     /\ filteredBranches # <<>>
     /\ "SyntaxError: Invalid regular expression" \notin events) =>
        LET length == Len(filteredBranches)
            end == IF scrollOffset + maxBranchesDisplay <= length
                   THEN scrollOffset + maxBranchesDisplay ELSE length
        IN  /\ 0 <= scrollOffset
            /\ scrollOffset <= selectedIndex
            /\ selectedIndex < scrollOffset + maxBranchesDisplay
            /\ selectedIndex < length
            /\ rendered = SubSeq(filteredBranches, scrollOffset + 1, end)
            /\ Len(rendered) <= maxBranchesDisplay
            /\ indicator <=> length > maxBranchesDisplay

\* A "(" was typed with two branches that hold one: display() threw at the
\* row under the selected one, the process has ended with exit code 1 and
\* the screen still shows the three rows written before the key.
C20_ThrewWithStaleRows ==
    /\ pc = "exited" /\ exitCode = 1
    /\ lastKey.str = "("
    /\ searchQuery = <<"(">>
    /\ Len(filteredBranches) = 2
    /\ Len(rendered) = 3
    /\ lastRead = {0, 1}

\* The cursor is on the last of twelve branches and the window has moved
\* down by two.
C20_Witness ==
    /\ pc = "session"
    /\ Len(filteredBranches) = 12
    /\ selectedIndex = 11 /\ scrollOffset = 2
    /\ Len(rendered) = maxBranchesDisplay
    /\ rendered[maxBranchesDisplay] = filteredBranches[12]
    /\ indicator

\* The version getNextVersion computes has a '## [version]' header in the
\* file at CONFIG.output.file.
DuplicateVersion ==
    /\ OutputFile.exists
    /\ \E i \in DOMAIN OutputFile.lines :
        /\ OutputFile.lines[i].head = "## ["
        /\ OutputFile.lines[i].ver = getNextVersion(changelog, shouldIncureaseVersion)
        /\ OutputFile.lines[i].close \in {"]", "] - date"}

\* CHANGELOG.md has a version section.
HasVersionSection ==
    /\ changelog.exists
    /\ \E i \in DOMAIN changelog.lines :
        /\ changelog.lines[i].head = "## ["
        /\ Len(changelog.lines[i].ver) = 3
        /\ changelog.lines[i].close \in {"]", "] - date"}

\* The run ends here with exit code 1, no request sent, no file touched.
AbortsUnwritten ==
    /\ pc' = "exited" /\ exitCode' = 1
    /\ requests' = 0
    /\ UNCHANGED <<changelog, previewFile, fileWrites>>

\* C18: with relevant files changed and the computed version already a
\* header of the output file, a run without --dry ends with exit code 1
\* before any request and leaves the file as it was, and a run with --dry
\* warns and goes on; with auto-increment off, every run without --dry
\* whose output file is a CHANGELOG.md with a version section ends so.
C18_DuplicateVersionAborts ==
    /\ [][(pc = "versionCheck" /\ DuplicateVersion)
            => IF ~args.dry THEN AbortsUnwritten
               ELSE /\ pc' = "callAI" /\ exitCode' = Running
                    /\ "Version already exists" \in events'
                    /\ UNCHANGED <<changelog, previewFile, fileWrites, requests>>]_vars
    /\ [][(/\ pc = "versionCheck" /\ ~args.dry
           /\ ~shouldIncureaseVersion
           /\ config.outputFile = "CHANGELOG.md"
           /\ HasVersionSection) => AbortsUnwritten]_vars
    /\ []("Version already exists" \in events =>
            IF ~args.dry
            THEN pc = "exited" /\ exitCode = 1 /\ requests = 0 /\ fileWrites = 0
            ELSE fileWrites = 0)

\* A run without --dry and without auto-increment ended with exit code 1
\* on the version of its changelog, before any request.
C18_Witness ==
    /\ pc = "exited" /\ exitCode = 1
    /\ "Version already exists" \in events
    /\ ~args.dry /\ ~shouldIncureaseVersion
    /\ config.outputFile = "CHANGELOG.md"
    /\ nextVersion = << <<1>>, <<2>>, <<3>> >>
    /\ requests = 0 /\ fileWrites = 0

(***************************************************************************)
(* The state in which no branch matches the query                          *)
(***************************************************************************)

\* C21: once display() has run, the line 'No branches match your search'
\* is on the screen exactly when the filtered list is empty, and then no
\* branch row and no scroll indicator is; no key makes the selector read
\* filteredBranches at an index outside the list; with the list empty, up,
\* down and enter leave the session running with nothing resolved and
\* nothing read; and a step that makes the list non-empty again is a change
\* of the query that leaves the cursor and the window at 0.
C21_NoMatchesState ==
    /\ [](pc # "select" =>
            /\ noMatches <=> filteredBranches = <<>>
            /\ filteredBranches = <<>> => (rendered = <<>> /\ ~indicator))
    /\ [](\A i \in lastRead : i >= 0 /\ i < Len(filteredBranches))
    /\ [][(/\ pc = "session"
           /\ filteredBranches = <<>>
           /\ lastKey'.name \in {"up", "down", "return"})
          => (/\ pc' = "session"
              /\ resolved' = None
              /\ lastRead' = {}
              /\ filteredBranches' = <<>>
              /\ UNCHANGED <<exitCode, events, searchQuery>>)]_vars
    /\ [][(pc = "session" /\ filteredBranches = <<>> /\ filteredBranches' # <<>>)
          => (/\ searchQuery' # searchQuery
              /\ selectedIndex' = 0
              /\ scrollOffset' = 0
              /\ 0 \in lastRead')]_vars

\* Enter was pressed after down while no branch matched: the cursor is at
\* -1, nothing was resolved and the session goes on.
C21_Witness ==
    /\ pc = "session"
    /\ filteredBranches = <<>>
    /\ noMatches
    /\ lastKey.name = "return"
    /\ selectedIndex = 0 - 1
    /\ resolved = None

(***************************************************************************)
(* The keys that edit the query                                            *)
(***************************************************************************)

\* The printable characters among the keys pressed.
Printable == {"a", "b", "-", "(", "q", "Q"}

\* The key is a printable character, pressed without Ctrl or Meta, other
\* than the keys handleKeypress names.
PrintableOther(key) ==
    /\ key.str \in Printable
    /\ ~key.ctrl /\ ~key.meta
    /\ key.name \notin {"up", "down", "return", "escape", "q", "backspace"}

\* C22: while the session runs, escape leaves the query empty, backspace
\* leaves it without its last character (empty when it was empty), another
\* printable key pressed without Ctrl or Meta leaves it with exactly that
\* character appended; each of the three leaves selectedIndex and
\* scrollOffset at 0 and filteredBranches equal to filterBranches of the
\* new query; and no step changes allBranches.
C22_EditingKeys ==
    /\ [][allBranches' = allBranches]_vars
    /\ [][(pc = "session" /\ lastKey'.name = "escape")
          => searchQuery' = <<>>]_vars
    /\ [][(pc = "session" /\ lastKey'.name = "backspace")
          => (/\ searchQuery' = SubSeq(searchQuery, 1, Len(searchQuery) - 1)
              /\ searchQuery = <<>> => searchQuery' = <<>>)]_vars
    /\ [][(pc = "session" /\ PrintableOther(lastKey'))
          => searchQuery' = searchQuery \o <<lastKey'.str>>]_vars
    /\ [][(/\ pc = "session"
           /\ \/ lastKey'.name \in {"escape", "backspace"}
              \/ PrintableOther(lastKey'))
          => (/\ selectedIndex' = 0
              /\ scrollOffset' = 0
              /\ filteredBranches' = filterBranches(allBranches, searchQuery')
              /\ \/ pc' = "session"
                 \/ /\ pc' = "exited" /\ exitCode' = 1
                    /\ SyntaxError(HighlightSource(searchQuery')))]_vars

\* Backspace was pressed on the query 'a-' with the cursor moved before:
\* the query is 'a', the cursor is back at 0.
C22_Witness ==
    /\ pc = "session"
    /\ lastKey.name = "backspace"
    /\ searchQuery = <<"a">>
    /\ selectedIndex = 0
    /\ Len(filteredBranches) > 1
    /\ Len(filteredBranches) < Len(allBranches)

(***************************************************************************)
(* The order of the matches                                                *)
(***************************************************************************)

\* The match tier of a branch for a query, ignoring case: 1 the name is the
\* query, 2 the name starts with it, 3 a segment of the name between '/'
\* and '-' starts with it, 4 the name contains it, 5 none of these.
MatchTier(branch, query) ==
    LET name == ToLowerCase(branch)
        q == ToLowerCase(query)
        parts == Split(name, {"/", "-"})
    IN  IF name = q THEN 1
        ELSE IF StartsWith(name, q) THEN 2
        ELSE IF \E k \in DOMAIN parts : StartsWith(parts[k], q) THEN 3
        ELSE IF Includes(name, q) THEN 4
        ELSE 5

\* The position of a name in allBranches.
PositionIn(list, name) == CHOOSE k \in DOMAIN list : list[k] = name

\* C23: for a non-empty query, of two branches filterBranches returns that
\* match in one of the four tiers, the one listed first is of a tier at
\* least as good; and two returned branches of the same score are in the
\* order they have in allBranches.
C23_TierOrderStable ==
    (pc = "filtered" /\ searchQuery # <<>>) =>
        \A i, j \in DOMAIN filteredBranches :
            i < j =>
                LET first == filteredBranches[i]
                    second == filteredBranches[j]
                IN  /\ (MatchTier(first, searchQuery) < 5
                            /\ MatchTier(second, searchQuery) < 5)
                        => MatchTier(first, searchQuery) <= MatchTier(second, searchQuery)
                    /\ BranchScore(first, searchQuery) = BranchScore(second, searchQuery)
                        => PositionIn(allBranches, first) < PositionIn(allBranches, second)

\* Two exact matches of 'ab' that differ in case only: they are returned in
\* the order of allBranches.
C23_Witness ==
    /\ pc = "filtered"
    /\ searchQuery = <<"a", "b">>
    /\ allBranches = << <<"A", "B">>, <<"a", "b">> >>
    /\ filteredBranches = allBranches

\* A segment-prefix match listed after a substring match in allBranches is
\* returned before it.
C23_WitnessTiers ==
    /\ pc = "filtered"
    /\ searchQuery = <<"a", "b">>
    /\ allBranches = << <<"c", "a", "b">>, <<"c", "-", "a", "b">> >>
    /\ filteredBranches = << <<"c", "-", "a", "b">>, <<"c", "a", "b">> >>

(***************************************************************************)
(* BranchSelector.buildBranchList                                          *)
(***************************************************************************)

\* Characters in the order of their UTF-16 code units, the order in which
\* Array.prototype.sort() without a comparator compares strings.
CodeUnits ==
    <<"-", "/", "D", "F", "Z", "a", "d", "e", "g", "i", "m", "n", "o", "r", "s", "t",
      "v", "x">>

CodeUnit(c) == CHOOSE k \in DOMAIN CodeUnits : CodeUnits[k] = c

\* a < b as JavaScript compares strings.
RECURSIVE StringLess(_, _)
StringLess(a, b) ==
    IF b = <<>> THEN FALSE
    ELSE IF a = <<>> THEN TRUE
    ELSE IF Head(a) = Head(b) THEN StringLess(Tail(a), Tail(b))
    ELSE CodeUnit(Head(a)) < CodeUnit(Head(b))

\* array.sort() of distinct names.
RECURSIVE SortNames(_)
SortNames(names) ==
    IF names = {} THEN <<>>
    ELSE LET least == CHOOSE n \in names : \A o \in names \ {n} : StringLess(n, o)
         IN  <<least>> \o SortNames(names \ {least})

\* array.filter((branch, index, array) => array.indexOf(branch) === index)
RECURSIVE FirstOccurrences(_, _)
FirstOccurrences(array, seen) ==
    IF array = <<>> THEN <<>>
    ELSE IF Head(array) \in seen THEN FirstOccurrences(Tail(array), seen)
    ELSE <<Head(array)>> \o FirstOccurrences(Tail(array), seen \cup {Head(array)})

master == <<"m", "a", "s", "t", "e", "r">>
main == <<"m", "a", "i", "n">>

\* Line 450.
priorityBranches == <<master, main>>

\* Lines 451-453: the first priority branch that is local or remote, else
\* 'master'.
defaultBranchOf(locals, remotes) ==
    IF \E k \in DOMAIN priorityBranches : priorityBranches[k] \in locals \cup remotes
    THEN priorityBranches[CHOOSE k \in DOMAIN priorityBranches :
                              /\ priorityBranches[k] \in locals \cup remotes
                              /\ \A j \in 1..(k - 1) :
                                    priorityBranches[j] \notin locals \cup remotes]
    ELSE master

\* buildBranchList, lines 444-477. The local and the remote names enter the
\* result through includes(), the Set of line 456 and the sorted
\* otherBranches only, so they are taken as sets; recents is the array
\* getRecentBranches returns.
buildBranchList(locals, remotes, recents) ==
    LET defaultBranch == defaultBranchOf(locals, remotes)
        all == locals \cup remotes
        otherBranches ==
            SortNames({branch \in all :
                          /\ branch \notin Range(priorityBranches)
                          /\ branch \notin Range(recents)})
    IN  FirstOccurrences(
            <<defaultBranch>>
                \o SelectSeq(recents, LAMBDA branch :
                                branch # defaultBranch /\ branch \in all)
                \o otherBranches,
            {})

(***************************************************************************)
(* SpecBuild: the list built from what git reports, then the keys of the   *)
(* session                                                                 *)
(***************************************************************************)

\* The longest list getRecentBranches returns: the shell expands the $0 of
\* the awk program of line 300, a text in double quotes, so that awk takes
\* one key for every line and lets the first line through only.
MaxRecent == 1

\* Branch names: the two priority names and two others, which sort() puts
\* in the order Fix, dev.
BuildNames == {master, main, <<"d", "e", "v">>, <<"F", "i", "x">>}

\* A name of the reflog that is no branch any more.
GoneName == <<"g", "o", "n", "e">>

\* The branch checked out.
CurrentBranches == {master, <<"d", "e", "v">>}

\* The state at the call of select(), before buildBranchList: git reports
\* local branches without the current one (line 331), remote branches, and
\* of the names last checked out at most MaxRecent, not the current one
\* (line 305).
InitBuild ==
    /\ pc = "build"
    /\ currentBranch \in CurrentBranches
    /\ localBranches \in SUBSET (BuildNames \ {currentBranch})
    /\ remoteBranches \in SUBSET BuildNames
    /\ recentBranches \in
           DistinctSeqs((BuildNames \cup {GoneName}) \ {currentBranch}, MaxRecent)
    /\ allBranches = <<>>
    /\ filteredBranches = <<>>
    /\ searchQuery = <<>>
    /\ isTTY \in BOOLEAN
    /\ selectedIndex = 0 /\ scrollOffset = 0
    /\ resolved = None /\ rendered = <<>> /\ indicator = FALSE /\ lastKey = NoKey
    /\ noMatches = FALSE /\ lastRead = {}
    /\ VersionIdle /\ FormatIdle /\ DiffIdle /\ ParseIdle /\ RunIdle /\ ClassifyIdle

\* select(), line 714: this.buildBranchList().
CallBuildBranchList ==
    /\ pc = "build"
    /\ allBranches' = buildBranchList(localBranches, remoteBranches, recentBranches)
    /\ filteredBranches' = allBranches'
    /\ pc' = "select"
    /\ UNCHANGED <<searchQuery, sessionVars, buildVars, versionVars, formatVars, diffVars,
                   parseVars, runVars, classifyVars>>

NextBuild ==
    \/ CallBuildBranchList
    \/ StartSession
    \/ HandleArrow
    \/ HandleReturn
    \/ HandleEscape
    \/ HandleQuit
    \/ HandleBackspace
    \/ HandleCharacter
    \/ HandleOther

SpecBuild == InitBuild /\ [][NextBuild]_vars

(***************************************************************************)
(* SpecRun: one run of the generator, the selector within it               *)
(***************************************************************************)

\* The values given with --base: a local branch and a remote one.
RunBases == {main, <<"o", "r", "i", "g", "i", "n", "/", "m", "a", "i", "n">>}

\* process.argv: --help, --dry-run, and the base of the comparison: a range,
\* --range without a value, --base with a value, or none of them.
RunArgs ==
    [help : BOOLEAN, dry : BOOLEAN, range : {"range", "missing", "interactive"},
     base : {None}]
        \cup [help : BOOLEAN, dry : BOOLEAN, range : {"base"}, base : RunBases]

\* The .gitignore of a run: none, one with a pattern, and one with a
\* pattern new RegExp does not take.
RunGitignores ==
    { NoGitignore,
      [exists |-> TRUE, patterns |-> << <<"d", "i", "s", "t", "/">> >>],
      [exists |-> TRUE, patterns |-> << <<"*", ".", "c", "+", "+">> >>] }

\* Before run() is called. A run that is given its base takes every
\* configuration, preview file and .gitignore; a run that asks the selector
\* for it has the default configuration, no preview file and no
\* .gitignore. What git reports of the branches is read by the selector
\* only: main is a remote branch, and a local one or not, Fix is a remote
\* branch, dev is checked out, and the reflog names no branch.
InitRun ==
    /\ pc = "run"
    /\ args \in RunArgs
    /\ env \in [ANTHROPIC_API_KEY : BOOLEAN, BREAKING_OK : BOOLEAN]
    /\ changelog \in RunFiles
    /\ shouldIncureaseVersion \in BOOLEAN
    /\ nextVersion = None
    /\ requests = 0 /\ fileWrites = 0 /\ events = {} /\ exitCode = Running
    /\ result = NoResult
    /\ FilterIdle /\ FormatIdle /\ DiffIdle /\ ParseIdle
    /\ filePath = <<>> /\ ignorePatterns = <<>> /\ scopeMapping = <<>>
    /\ ignored = FALSE /\ scope = <<>>
    /\ selectedIndex = 0 /\ scrollOffset = 0
    /\ resolved = None /\ rendered = <<>> /\ indicator = FALSE /\ lastKey = NoKey
    /\ noMatches = FALSE /\ lastRead = {}
    /\ recentBranches = <<>>
    /\ IF args.range = "interactive"
       THEN /\ config = DefaultConfig
            /\ previewFile = NoFile
            /\ gitignore = NoGitignore
            /\ isTTY \in BOOLEAN
            /\ currentBranch = <<"d", "e", "v">>
            /\ localBranches \in {{}, {main}}
            /\ remoteBranches = {main, <<"F", "i", "x">>}
       ELSE /\ config \in [outputFile : {"CHANGELOG.md", "docs/preview.md"},
                            appendToExisting : BOOLEAN,
                            blockBreakingChanges : BOOLEAN]
            /\ previewFile \in RunPreviewFiles
            /\ gitignore \in RunGitignores
            /\ isTTY = TRUE
            /\ currentBranch = <<>>
            /\ localBranches = {}
            /\ remoteBranches = {}

\* The steps of run(); within getRange the selector builds its list and
\* takes the keys.
NextRun ==
    \/ RunHelp
    \/ RunCheckApiKey
    \/ RunGetRange
    \/ CallBuildBranchList
    \/ StartSession
    \/ HandleArrow
    \/ HandleReturn
    \/ HandleEscape
    \/ HandleQuit
    \/ HandleBackspace
    \/ HandleCharacter
    \/ HandleOther
    \/ RunBaseSelected
    \/ RunChangedFiles
    \/ RunVersionCheck
    \/ RunCallAI
    \/ RunFetchSettled
    \/ RunErrorBody
    \/ RunBody
    \/ RunCheckEntries
    \/ RunCheckBreaking
    \/ RunFormat
    \/ RunWrite

SpecRun == InitRun /\ [][NextRun]_vars

\* The branches that exist locally or remotely, as git reported them.
ExistingBranches == localBranches \cup remoteBranches

\* A list without duplicates.
NoDuplicates(list) == \A i, j \in DOMAIN list : i # j => list[i] # list[j]

\* A list in ascending order.
Ascending(list) == \A i, j \in DOMAIN list : i < j => StringLess(list[i], list[j])

\* The first of 'master' and 'main' that exists, when one does.
FirstPriorityExisting ==
    IF master \in ExistingBranches THEN master ELSE main

\* C24: the list buildBranchList leaves has no duplicates and is the
\* default branch, then the recently checked-out branches that exist and
\* are not the default branch, in the order of the reflog and without the
\* current branch, then every other existing branch in ascending order.
C24_DefaultRecentRemaining ==
    pc # "build" =>
        /\ NoDuplicates(allBranches)
        /\ \E r \in 0..Len(recentBranches) :
            LET first == Head(allBranches)
                recent == SubSeq(allBranches, 2, r + 1)
                remaining == SubSeq(allBranches, r + 2, Len(allBranches))
            IN  /\ Len(allBranches) >= r + 1
                /\ (master \in ExistingBranches \/ main \in ExistingBranches)
                    => first = FirstPriorityExisting
                /\ recent = SelectSeq(recentBranches, LAMBDA branch :
                                         branch # first /\ branch \in ExistingBranches)
                /\ currentBranch \notin Range(recent)
                /\ Ascending(remaining)
                /\ Range(remaining) =
                       ExistingBranches \ ({first} \cup Range(recentBranches))

\* The same of every part but the last: what follows the recent branches
\* is in ascending order and holds no name listed before.
C24_HoldsButForRemaining ==
    pc # "build" =>
        /\ NoDuplicates(allBranches)
        /\ \E r \in 0..Len(recentBranches) :
            LET first == Head(allBranches)
                recent == SubSeq(allBranches, 2, r + 1)
                remaining == SubSeq(allBranches, r + 2, Len(allBranches))
            IN  /\ Len(allBranches) >= r + 1
                /\ (master \in ExistingBranches \/ main \in ExistingBranches)
                    => first = FirstPriorityExisting
                /\ recent = SelectSeq(recentBranches, LAMBDA branch :
                                         branch # first /\ branch \in ExistingBranches)
                /\ currentBranch \notin Range(recent)
                /\ Ascending(remaining)
                /\ Range(remaining) \subseteq
                       ExistingBranches \ ({first} \cup Range(recentBranches))

\* C25: every name getLocalBranches or getRemoteBranches returned is in the
\* list buildBranchList leaves.
C25_UnionOfLocalAndRemote ==
    pc # "build" => ExistingBranches \subseteq Range(allBranches)

\* The same unless both 'master' and 'main' exist.
C25_HoldsUnlessBothPriorityExist ==
    (pc # "build" /\ ~(master \in ExistingBranches /\ main \in ExistingBranches))
        => ExistingBranches \subseteq Range(allBranches)

\* The reference names a branch that exists: a local name, or origin/ and
\* a remote name.
NamesExistingBranch(reference) ==
    \/ reference \in localBranches
    \/ \E name \in remoteBranches :
            reference = <<"o", "r", "i", "g", "i", "n", "/">> \o name

\* C26: the first element of the list is the first of 'master' and 'main'
\* that exists locally or remotely, every element exists locally or
\* remotely, and a reference resolved by enter names an existing branch.
C26_ListedBranchesExist ==
    pc # "build" =>
        /\ Head(allBranches) \in ExistingBranches
        /\ Head(allBranches) = FirstPriorityExisting
        /\ Range(allBranches) \subseteq ExistingBranches
        /\ resolved # None => NamesExistingBranch(resolved)

\* The same where 'master' or 'main' exists.
C26_HoldsWhenPriorityExists ==
    (pc # "build" /\ (master \in ExistingBranches \/ main \in ExistingBranches)) =>
        /\ Head(allBranches) \in ExistingBranches
        /\ Head(allBranches) = FirstPriorityExisting
        /\ Range(allBranches) \subseteq ExistingBranches
        /\ resolved # None => NamesExistingBranch(resolved)

(***************************************************************************)
(* How often an entry is rendered, and the order of the sections           *)
(***************************************************************************)

\* The positions in the output of the lines of a kind that render entry i.
RenderedAs(kind, i) ==
    {p \in DOMAIN output : output[p].kind = kind /\ output[p].description = i}

\* C27: a breaking-type entry is rendered once in the breaking section and
\* not under a category; every other entry is rendered once under a
\* category and not in the breaking section.
C27_RenderedExactlyOnce ==
    pc = "formatted" =>
        \A i \in DOMAIN entries :
            IF entries[i].type = "breaking"
            THEN /\ Cardinality(RenderedAs("breaking", i)) = 1
                 /\ RenderedAs("item", i) = {}
            ELSE /\ Cardinality(RenderedAs("item", i)) = 1
                 /\ RenderedAs("breaking", i) = {}

\* The same of the breaking-type entries that have no category of their
\* own, and of the other entries whose category does not contain BREAKING.
C27_HoldsForDerivedCategories ==
    pc = "formatted" =>
        \A i \in DOMAIN entries :
            IF entries[i].type = "breaking"
            THEN entries[i].category = "" =>
                    /\ Cardinality(RenderedAs("breaking", i)) = 1
                    /\ RenderedAs("item", i) = {}
            ELSE ~isBreakingCategory(entries[i].category) =>
                    /\ Cardinality(RenderedAs("item", i)) = 1
                    /\ RenderedAs("breaking", i) = {}

\* The place of a category in the table, 0 when it is not there.
TablePlace(category) ==
    IF \E c \in DOMAIN CATEGORIES : CATEGORIES[c] = category
    THEN CHOOSE c \in DOMAIN CATEGORIES : CATEGORIES[c] = category
    ELSE 0

\* The position of the first entry of a category.
FirstEncounter(category) ==
    CHOOSE i \in DOMAIN entries :
        /\ CategoryOf(entries[i]) = category
        /\ \A j \in 1..(i - 1) : CategoryOf(entries[j]) # category

\* C28: of two category sections of the output, one of a category of the
\* table comes before one of a category that is not; two of categories of
\* the table are in the order of the table; two of categories that are not
\* are in the order in which the entries first name them.
C28_SectionOrder ==
    pc = "formatted" =>
        \A p, q \in CategoryHeadings :
            p < q =>
                LET first == output[p].text
                    second == output[q].text
                IN  /\ TablePlace(second) > 0 =>
                            (TablePlace(first) > 0 /\ TablePlace(first) < TablePlace(second))
                    /\ (TablePlace(first) = 0 /\ TablePlace(second) = 0) =>
                            FirstEncounter(first) < FirstEncounter(second)

\* The same where no category is named like an array index.
C28_HoldsWithoutIndexNames ==
    (pc = "formatted" /\ \A i \in DOMAIN entries : ArrayIndex(CategoryOf(entries[i])) < 0) =>
        \A p, q \in CategoryHeadings :
            p < q =>
                LET first == output[p].text
                    second == output[q].text
                IN  /\ TablePlace(second) > 0 =>
                            (TablePlace(first) > 0 /\ TablePlace(first) < TablePlace(second))
                    /\ (TablePlace(first) = 0 /\ TablePlace(second) = 0) =>
                            FirstEncounter(first) < FirstEncounter(second)

(***************************************************************************)
(* SpecAppend: successive runs that append to CHANGELOG.md                 *)
(***************************************************************************)

\* The most version sections of a file another run is started on.
MaxSections == 3

\* A line that continues the paragraph of the line before it: no empty
\* line lies between the two.
WrappedLine == [head |-> "", ver |-> <<>>, close |-> "wrapped"]

\* The heading of the section of a version written as major.minor.patch.
SectionLine(major, minor, patch) ==
    [head |-> "## [", ver |-> << <<major>>, <<minor>>, <<patch>> >>, close |-> "] - date"]

\* CHANGELOG.md before the first run: absent, empty, the title alone, with
\* a description of one line, with sections, with a description of one
\* paragraph on two lines, with a description of two paragraphs, without
\* the title, a preview written by writeNewFile, three texts without the
\* line break at the end, one that starts with a blank line, and one
\* with CRLF line ends.
AppendFiles ==
    { NoFile,
      File(<<>>),
      File(<<TitleLine>>),
      File(<<TitleLine, DescriptionLine>>),
      File(<<TitleLine, DescriptionLine, SectionLine(1, 2, 3)>>),
      File(<<TitleLine, SectionLine(1, 2, 3), SectionLine(1, 2, 2)>>),
      File(<<TitleLine, DescriptionLine, WrappedLine, SectionLine(1, 2, 3)>>),
      File(<<TitleLine, DescriptionLine, DescriptionLine, SectionLine(1, 2, 3)>>),
      File(<<SectionLine(1, 2, 3)>>),
      File(<<PreviewTitleLine, SectionLine(1, 2, 3)>>),
      Unterminated(<<TitleLine>>),
      Unterminated(<<TitleLine, DescriptionLine>>),
      Unterminated(<<TitleLine, DescriptionLine, SectionLine(1, 2, 3)>>),
      AfterBlankLine(<<TitleLine, DescriptionLine, SectionLine(1, 2, 3)>>),
      CarriageReturns(<<TitleLine, DescriptionLine, SectionLine(1, 2, 3)>>) }

\* The lines of a file that open a version section.
Sections(lines) == SelectSeq(lines, LAMBDA line : line.head = "## [")

\* The generator called with --range and the key set, CONFIG as the file
\* sets it, no .gitignore.
InitAppend ==
    /\ pc = "run"
    /\ args = [help |-> FALSE, dry |-> FALSE, range |-> "range", base |-> None]
    /\ env = [ANTHROPIC_API_KEY |-> TRUE, BREAKING_OK |-> FALSE]
    /\ config = DefaultConfig
    /\ previewFile = NoFile
    /\ changelog \in AppendFiles
    /\ shouldIncureaseVersion \in BOOLEAN
    /\ nextVersion = None
    /\ requests = 0 /\ fileWrites = 0 /\ events = {} /\ exitCode = Running
    /\ result = NoResult
    /\ FilterIdle /\ FormatIdle /\ DiffIdle /\ ParseIdle /\ ClassifyIdle
    /\ SessionIdle /\ BuildIdle

\* Lines 1668-1672: the generator is called again, a new process on the
\* files the one before left.
RunAgain ==
    /\ pc = "exited"
    /\ Len(Sections(changelog.lines)) < MaxSections
    /\ pc' = "run"
    /\ requests' = 0 /\ fileWrites' = 0 /\ events' = {} /\ exitCode' = Running
    /\ result' = NoResult
    /\ nextVersion' = None
    /\ output' = <<>>
    /\ responseText' = <<>> /\ parsed' = ParseError
    /\ ignorePatterns' = <<>>
    /\ UNCHANGED <<args, env, config, previewFile, changelog, shouldIncureaseVersion,
                   entries, filePath, gitignore, scopeMapping, ignored, scope,
                   filterVars, diffVars, sessionVars, buildVars>>

\* The steps of run() from a command line with --range, and the next call.
NextAppend ==
    \/ RunCheckApiKey
    \/ RunGetRange
    \/ RunChangedFiles
    \/ RunVersionCheck
    \/ RunCallAI
    \/ RunFetchSettled
    \/ RunErrorBody
    \/ RunBody
    \/ RunCheckEntries
    \/ RunCheckBreaking
    \/ RunFormat
    \/ RunWrite
    \/ RunAgain

SpecAppend == InitAppend /\ [][NextAppend]_vars

\* The number of lines of the description that follows the title: the
\* lines of its first paragraph.
RECURSIVE ParagraphFrom(_, _)
ParagraphFrom(lines, i) ==
    IF i <= Len(lines) /\ lines[i] = WrappedLine THEN 1 + ParagraphFrom(lines, i + 1)
    ELSE 0

DescriptionLength(lines) ==
    IF Len(lines) >= 2 /\ ~IsHeading(lines[2]) THEN 1 + ParagraphFrom(lines, 3)
    ELSE 0

\* A run appended to a file that started with the title.
AppendedAfterTitle ==
    /\ fileWrites' = fileWrites + 1
    /\ changelog.exists
    /\ ~changelog.leading
    /\ changelog.lines # <<>>
    /\ changelog.lines[1] = TitleLine

\* C29: a run that appends to a file starting with the title leaves the
\* title and the description after it, then the new section, then the
\* rest of the file as it was; the version sections of the file are then
\* the new one followed by the earlier ones in their order; and with the
\* patch number increased by each run, the section a run adds is of a
\* higher version than the one after it, so that the sections the runs
\* added are newest first.
C29_InsertedAfterDescription ==
    /\ [][AppendedAfterTitle =>
            LET old == changelog.lines
                d == DescriptionLength(old)
            IN  changelog'.lines =
                    SubSeq(old, 1, 1 + d) \o ToLines(output')
                        \o SubSeq(old, 2 + d, Len(old))]_vars
    /\ [][AppendedAfterTitle =>
            /\ Sections(changelog'.lines) =
                  <<ToLine(output'[1])>> \o Sections(changelog.lines)
            /\ changelog'.lines[1] = TitleLine]_vars
    /\ [][(AppendedAfterTitle /\ shouldIncureaseVersion
                /\ Sections(changelog.lines) # <<>>) =>
            Number(Sections(changelog'.lines)[1].ver[3])
                > Number(Sections(changelog'.lines)[2].ver[3])]_vars

\* The same where the description is the one line the insertion keeps
\* with the title, and the text of the file has line feeds for line ends,
\* the last line included.
C29_HoldsForOneLineDescriptions ==
    /\ [][(AppendedAfterTitle /\ DescriptionLength(changelog.lines) <= 1
                /\ changelog.newline /\ ~changelog.cr) =>
            LET old == changelog.lines
                d == DescriptionLength(old)
            IN  changelog'.lines =
                    SubSeq(old, 1, 1 + d) \o ToLines(output')
                        \o SubSeq(old, 2 + d, Len(old))]_vars
    /\ [][AppendedAfterTitle =>
            /\ Sections(changelog'.lines) =
                  <<ToLine(output'[1])>> \o Sections(changelog.lines)
            /\ changelog'.lines[1] = TitleLine]_vars
    /\ [][(AppendedAfterTitle /\ shouldIncureaseVersion
                /\ Sections(changelog.lines) # <<>>) =>
            Number(Sections(changelog'.lines)[1].ver[3])
                > Number(Sections(changelog'.lines)[2].ver[3])]_vars

(***************************************************************************)
(* The mode of writeChangelog                                              *)
(***************************************************************************)

\* The file at CONFIG.output.file after the step.
OutputFileAfter == IF config.outputFile = "CHANGELOG.md" THEN changelog' ELSE previewFile'

\* C30: a write with appendToExisting set keeps the lines the file at
\* CONFIG.output.file had, in their order, whatever that path is; a write
\* without it leaves the preview document alone in the file.
C30_AppendKeepsContent ==
    [][fileWrites' = fileWrites + 1 =>
          IF config.appendToExisting
          THEN /\ IsSubsequence(OutputFile.lines, OutputFileAfter.lines)
               /\ IsSubsequence(ToLines(output), OutputFileAfter.lines)
          ELSE OutputFileAfter.lines = writeNewFile(ToLines(output))]_vars

\* The same where the path is the literal CHANGELOG.md.
C30_HoldsForChangelogMd ==
    [][(fileWrites' = fileWrites + 1 /\ config.outputFile = "CHANGELOG.md") =>
          IF config.appendToExisting
          THEN /\ IsSubsequence(OutputFile.lines, OutputFileAfter.lines)
               /\ IsSubsequence(ToLines(output), OutputFileAfter.lines)
          ELSE OutputFileAfter.lines = writeNewFile(ToLines(output))]_vars

====
